---- MODULE Spec2Model ----
(***************************************************************************)
(* State-machine model of the dma_bot_rust trading pipeline:               *)
(*   risk gate (src/src/risk.rs), smart-order router (src/src/router.rs),  *)
(*   simulated venue gateway (src/src/gateway.rs), exchange user-data      *)
(*   stream (src/src/gateway_binance.rs) and the positions / PnL task      *)
(*   (src/src/positions.rs).                                               *)
(* Each component has its own specification (SpecRisk, SpecRouter,         *)
(* SpecGateway, SpecPos); the variables of the other components stay at    *)
(* their initial value in it. SpecPipe composes router, gateways, exec     *)
(* fan-out, dispatcher, post-trade logger and position task                *)
(* (src/src/main.rs, src/src/posttrade.rs); SpecBinance is the order loop   *)
(* of the exchange gateway (src/src/gateway_binance.rs); SpecMd is the MD   *)
(* bus with a strategy worker (src/src/strategy.rs) and the position task  *)
(* as subscribers; SpecLife is feed, strategy worker and risk gate with    *)
(* channels that close; SpecStrat is one strategy worker with the          *)
(* parameters of its run function, fed directly with ticks; SpecFeed is    *)
(* the mock feed and the exchange bookTicker feed (src/src/feed.rs);       *)
(* SpecPosWs is the position task fed with the reports of the exchange     *)
(* gateway's user-data stream; SpecDisp and FairSpecDisp are the exec       *)
(* fan-out, the dispatcher, the post-trade logger and the position task    *)
(* fed by that stream, without and with fair scheduling of the tasks;      *)
(* SpecTrade is the pipeline for one order with the position task marking  *)
(* ticks around the order's price; SpecPosBus and SpecStratBus are the     *)
(* position task and the mean-reversion worker on a bus that carries the   *)
(* ticks of two symbols; SpecFlow and FairSpecFlow are the pipeline in     *)
(* mock venue mode from the risk gate's output to post-trade and           *)
(* positions, without and with fair scheduling of the tasks.               *)
(***************************************************************************)
EXTENDS Integers, Sequences, FiniteSets, TLC

VARIABLES
    \* ---- risk gate (risk.rs) ----
    lim,        \* Limits read once at startup (config.rs load)
    now,        \* last reading of the wall clock taken by check(), in ns
    thr,        \* ThrottleState {last_ns, counter}
    ord_q,      \* order queue risk -> router (mpsc channel)
    risk_res,   \* outcome of the last check(): "none", "Ok", "Notional", "PriceBand", "Throttle"
    win_ok,     \* history: orders accepted since thr.last_ns was last set
    nsig,       \* history: number of signals the risk task has taken
    risk_err,   \* history: TRUE once a send of the risk task has returned an error
    risk_after, \* history: signals the risk task has taken after such an error
    risk_sig,   \* history: the last signal the risk task has taken, <<>> before the first
    \* ---- router (router.rs) ----
    cfg,        \* RouterCfg {top_n, min_child_qty, inv_bias_weight}; venues are VenueTable
    snap,       \* SymbolState of the InvSnapshot held by the watch channel
    snap_seen,  \* TRUE when the router's receiver has seen the channel's current version
    last_inv,   \* SymbolState of the router's copy of the snapshot
    gw_q,       \* per-venue queues router -> gateway
    routed,     \* history: the last parent order routed and the children sent for it
    nord,       \* history: number of parent orders routed
    rt_out,     \* history, per venue: the VenueOrders the router has sent
    snap_ver,   \* history: number of snapshots sent by the router specification's publisher
    inv_ver,    \* history: value of snap_ver when the router last copied the snapshot
    inv_prev,   \* history: value of inv_ver before that copy
    \* ---- simulated gateway (gateway.rs) ----
    gw_pc,      \* per venue: "recv" (awaiting rx.recv) or "sleep" (between Ack and Filled)
    gw_cur,     \* per venue: the order being handled
    exec_q,     \* central exec queue gateways -> fan-out
    gw_in,      \* history, per venue: the orders the gateway has received
    gw_out,     \* history, per venue: the reports the gateway has emitted
    \* ---- positions task (positions.rs) ----
    pos,        \* SymbolState {last_mid, total_qty, realized_pnl, unrealized_pnl, by_venue}
    pos_alive,  \* FALSE once the task has panicked
    fills,      \* history, per venue: the reports handled, with the inferred side
    nfill,      \* history: number of exec reports handled
    pos_got,    \* history: the exec reports the position task has received
    pos_md_off, \* TRUE while the md branch of the task's current select! is disabled
    \* ---- exec fan-out, dispatcher, post-trade logger (main.rs, posttrade.rs) ----
    fan_pc,     \* fan-out task: "recv" (awaiting rx.recv) or "pos" (between its two sends)
    fan_cur,    \* fan-out task: the report being forwarded
    post_q,     \* queue fan-out -> post-trade logger
    to_pos_q,   \* queue fan-out -> dispatcher
    pos_q,      \* per-symbol queues dispatcher -> position task
    post_got,   \* history: the exec reports the post-trade logger has received
    \* ---- exchange gateway, order loop (gateway_binance.rs) ----
    bn_pc,      \* "start", "recv" (awaiting rx.recv), "rest" (awaiting the REST response), "done"
    bn_cur,     \* the order being submitted
    bn_in,      \* history: the orders the gateway has received
    bn_rsp,     \* history: the REST responses, one per submitted order
    bn_out,     \* history: the reports the order loop has emitted
    ws_out,     \* history: the reports the user-data stream task has emitted
    \* ---- MD bus (tokio broadcast channel; feed.rs, main.rs) ----
    md_log,     \* the ticks published so far; the ring retains the last RingCap
    md_closed,  \* TRUE once every sender of the bus is dropped
    md_next,    \* per subscriber: index in md_log of the next tick it reads
    md_got,     \* history, per subscriber: the ticks it has received
    since_lag,  \* history, per subscriber: ticks received since its last lag signal (-1: none yet)
    \* ---- mean-reversion strategy worker (strategy.rs) ----
    strat,      \* StratState {window, sum}
    sig_q,      \* signal queue strategy -> risk
    strat_spin, \* history: TRUE once the worker has got Err(Closed) and gone round its loop
    strat_err,  \* history: TRUE once a send of the worker has returned an error
    strat_after,\* history: ticks the worker has taken after such an error
    \* ---- channel closure ----
    sig_closed, \* TRUE once every sender of the signal queue is dropped (no worker left)
    sig_gone,   \* TRUE once the receiver of the signal queue is dropped (no risk task left)
    ord_gone,   \* TRUE once the receiver of the order queue is dropped (no router left)
    task_done,  \* the tasks that have returned
    \* ---- one strategy worker with the parameters of its run function (strategy.rs) ----
    mode,       \* StrategyMode of the worker main has spawned, "none" before
    mac,        \* MACrossState of an MA-crossover worker
    vb,         \* VolBreakoutState of a volatility-breakout worker
    fed,        \* history: the ticks the worker has received, in order
    sig_log,    \* history: the signals the worker has handed to sig_tx.send, in order
    \* ---- feeds (feed.rs) ----
    market,     \* MarketMode of the feed main has spawned, "none" before
    px_bid      \* run_mock: the random walk's current bid

riskVars == <<lim, now, thr, ord_q, risk_res, win_ok, nsig, risk_err, risk_after, risk_sig>>
routerVars == <<cfg, snap, snap_seen, last_inv, gw_q, routed, nord, rt_out, snap_ver, inv_ver, inv_prev>>
gwVars == <<gw_pc, gw_cur, exec_q, gw_in, gw_out>>
posVars == <<pos, pos_alive, fills, nfill, pos_got, pos_md_off>>
fanVars == <<fan_pc, fan_cur, post_q, to_pos_q, pos_q, post_got>>
bnVars == <<bn_pc, bn_cur, bn_in, bn_rsp, bn_out, ws_out>>
mdVars == <<md_log, md_closed, md_next, md_got, since_lag>>
stratVars == <<strat, sig_q, strat_spin, strat_err, strat_after>>
closeVars == <<sig_closed, sig_gone, ord_gone, task_done>>
wkVars == <<mode, mac, vb, fed, sig_log>>
feedVars == <<market, px_bid>>
vars == <<riskVars, routerVars, gwVars, posVars, fanVars, bnVars, mdVars, stratVars, closeVars, wkVars,
          feedVars>>

\* ------------------------------------------------------------------------
\* Bounds of the model
\* ------------------------------------------------------------------------
\* i64::MAX scaled down to the model's integer width (saturating_mul saturates here)
IntMax == 127
IntMin == -IntMax - 1
\* signals taken by the risk task in one run
MaxSignals == 3
\* capacity of the bounded mpsc channels in the model
QueueCap == 2

\* ------------------------------------------------------------------------
\* Shared helpers
\* ------------------------------------------------------------------------
Abs(x) == IF x < 0 THEN -x ELSE x
Signum(x) == IF x > 0 THEN 1 ELSE IF x < 0 THEN -1 ELSE 0
Max(a, b) == IF a >= b THEN a ELSE b
Min(a, b) == IF a <= b THEN a ELSE b
\* Rust integer division truncates toward zero (b # 0)
TruncDiv(a, b) ==
    LET q == Abs(a) \div Abs(b)
    IN IF (a < 0) # (b < 0) THEN -q ELSE q

Symbols == {"BTCUSDT"}
Sides == {"Buy", "Sell"}
\* Side::sign
sign(side) == IF side = "Buy" THEN 1 ELSE -1

\* ========================================================================
\* Risk gate
\* ========================================================================
\* the 20 ms throttle window, in ns
Window == 20000000

\* i64::saturating_mul at the model's width
saturating_mul(a, b) ==
    LET p == a * b
    IN IF p > IntMax THEN IntMax ELSE IF p < IntMin THEN IntMin ELSE p

\* Limits the process can be started with (MAX_NOTIONAL, PX_MIN, PX_MAX, MAX_QPS
\* are parsed from the environment as i64 / u32)
LimitsSet ==
    {[max_notional |-> 60, px_min |-> 2, px_max |-> 20, max_qps |-> 1],
     [max_notional |-> 60, px_min |-> 2, px_max |-> 20, max_qps |-> 2],
     [max_notional |-> IntMax, px_min |-> 2, px_max |-> IntMax, max_qps |-> 2]}

\* Signals the strategies can push: px is a best bid/ask (> 0), qty > 0
\* (check() never reads the side, so one side is enough here)
SigPx == {1, 5, 20, 64}
SigQty == {1, 4}
SignalSet == [ts_ns : {1}, symbol : Symbols, side : {"Buy"}, px : SigPx, qty : SigQty]
\* advance of the wall clock between two check() calls, in ns
ClockSteps == {0, 10000000, 20000000}
\* values of rand::thread_rng().gen::<u32>() kept in the model
RandSet == {0, 1}

\* variant of CheckKind: the price band is tested before the notional
CheckKind_BandFirst(sig, l, t, tnow) ==
    IF sig.px < l.px_min \/ sig.px > l.px_max THEN "PriceBand"
    ELSE IF saturating_mul(sig.px, sig.qty) > l.max_notional THEN "Notional"
    ELSE IF tnow - t.last_ns < Window /\ t.counter + 1 > l.max_qps THEN "Throttle"
    ELSE "Ok"

\* check(): the rejection kind, or "Ok"; tnow is the clock reading of step 3
CheckKind(sig, l, t, tnow) ==
    IF saturating_mul(sig.px, sig.qty) > l.max_notional THEN "Notional"
    ELSE IF sig.px < l.px_min \/ sig.px > l.px_max THEN "PriceBand"
    ELSE IF tnow - t.last_ns < Window /\ t.counter + 1 > l.max_qps THEN "Throttle"
    ELSE "Ok"

\* check(): the throttle state it leaves behind
CheckThr(sig, l, t, tnow) ==
    IF saturating_mul(sig.px, sig.qty) > l.max_notional THEN t
    ELSE IF sig.px < l.px_min \/ sig.px > l.px_max THEN t
    ELSE IF tnow - t.last_ns < Window
         THEN [t EXCEPT !.counter = t.counter + 1]
         ELSE [last_ns |-> tnow, counter |-> 0]

\* check(): step 4, the order built from an accepted signal
BuildOrder(sig, tnow, rnd) ==
    [cl_id |-> <<"CL", tnow, rnd>>, ts_ns |-> sig.ts_ns, symbol |-> sig.symbol,
     side |-> sig.side, px |-> sig.px, qty |-> sig.qty]

\* Limits of the reference configuration, at the model's scale
DefaultLimits == [max_notional |-> 60, px_min |-> 2, px_max |-> 20, max_qps |-> 2]
\* ThrottleState::default()
ThrFresh == [last_ns |-> 0, counter |-> 0]
\* the wall clock when the risk task starts (any reading >= Window)
StartNs == 5 * Window

\* the risk task exists: it has not returned and its receiver is not dropped
RiskRuns == "risk" \notin task_done /\ ~sig_gone

\* risk::run, the body of one iteration: check() the signal and send the order
\* if accepted; the result of the send is ignored (let _ =), so with the
\* receiver dropped the order is lost and the loop goes on
RiskHandle(sig) ==
    /\ \E dt \in ClockSteps, rnd \in RandSet :
        LET tnow == now + dt
            kind == CheckKind(sig, lim, thr, tnow)
            reset == tnow - thr.last_ns >= Window
            sent == kind = "Ok" /\ ~ord_gone
        IN /\ sent => Len(ord_q) < QueueCap
           /\ now' = tnow
           /\ thr' = CheckThr(sig, lim, thr, tnow)
           /\ risk_res' = kind
           /\ ord_q' = IF sent THEN Append(ord_q, BuildOrder(sig, tnow, rnd)) ELSE ord_q
           /\ win_ok' = IF kind = "Ok" THEN (IF reset THEN 1 ELSE win_ok + 1)
                        ELSE IF kind = "Throttle" THEN win_ok
                        ELSE win_ok
           /\ risk_err' = (risk_err \/ (kind = "Ok" /\ ord_gone))
    /\ nsig' = nsig + 1
    /\ risk_after' = IF risk_err THEN risk_after + 1 ELSE risk_after
    /\ risk_sig' = <<sig>>
    /\ UNCHANGED lim

\* risk::run, one iteration: recv a signal, check() it, send the order if accepted
RiskOnSignal ==
    /\ RiskRuns
    /\ nsig < MaxSignals
    /\ \E sig \in SignalSet : RiskHandle(sig)

\* the router takes the head of the order queue (its effect on the router is
\* left out of the risk specification)
OrdTake ==
    /\ ~ord_gone
    /\ ord_q # <<>>
    /\ ord_q' = Tail(ord_q)
    /\ UNCHANGED <<lim, now, thr, risk_res, win_ok, nsig, risk_err, risk_after, risk_sig>>

\* ========================================================================
\* Smart-order router
\* ========================================================================
Venues == {"A", "B", "C"}
\* RouterCfg::default(): the venue table
VenueTable ==
    [v \in Venues |->
        CASE v = "A" -> [fee_bps |-> 5, est_latency_ms |-> 3, liq_score |-> 70]
          [] v = "B" -> [fee_bps |-> 7, est_latency_ms |-> 2, liq_score |-> 50]
          [] v = "C" -> [fee_bps |-> 2, est_latency_ms |-> 6, liq_score |-> 90]]
\* RouterCfg::default(): the scalar fields
DefaultCfg == [top_n |-> 2, min_child_qty |-> 2, inv_target |-> 0, inv_bias_weight |-> 5]

\* largest parent quantity routed in the model
MaxQty == 10
\* parent orders routed in one run
MaxOrders == 1

\* router configurations: the default one and its neighbours in top_n,
\* min_child_qty and inv_bias_weight
CfgSet ==
    [top_n : 1..Cardinality(Venues), min_child_qty : {1, 2},
     inv_target : {0}, inv_bias_weight : {5, 10}]

\* VenuePosition::default() and SymbolState::default()
ZeroPos == [qty |-> 0, avg_cost_px |-> 0, realized_pnl |-> 0]
ZeroState(vs) ==
    [last_mid |-> 0, total_qty |-> 0, realized_pnl |-> 0, unrealized_pnl |-> 0,
     by_venue |-> [v \in vs |-> ZeroPos]]

\* orders the risk gate can hand to the router
RouterPx == {1000, 200000}
OrderSet ==
    [cl_id : {<<"CL", 100, 0>>}, ts_ns : {1}, symbol : Symbols, side : Sides,
     px : RouterPx, qty : 1..MaxQty]

\* score_base
score_base(v, px) ==
    VenueTable[v].liq_score - TruncDiv(VenueTable[v].fee_bps * px, 10000)
        - VenueTable[v].est_latency_ms

\* variant of FinalScore: the inventory bias is left out
FinalScore_NoBias(v, px, inv, c) == score_base(v, px)

\* run, steps 1-2: base score plus inventory bias from the router's snapshot
FinalScore(v, px, inv, c) ==
    score_base(v, px) + (-Signum(inv.by_venue[v].qty)) * c.inv_bias_weight

\* all orders of the venues (the hash map's iteration order is arbitrary)
Perms(S) ==
    {p \in [1..Cardinality(S) -> S] : \A i, j \in 1..Cardinality(S) : i # j => p[i] # p[j]}

\* variant of IsRanked: sorted by ascending score
IsRanked_Ascending(p, px, inv, c) ==
    \A i \in 1..(Len(p) - 1) : FinalScore(p[i], px, inv, c) <= FinalScore(p[i + 1], px, inv, c)

\* run, step 3: ranked is an iteration order stably sorted by descending score
IsRanked(p, px, inv, c) ==
    \A i \in 1..(Len(p) - 1) : FinalScore(p[i], px, inv, c) >= FinalScore(p[i + 1], px, inv, c)

TopN(p, c) == SubSeq(p, 1, Min(c.top_n, Len(p)))

RECURSIVE SumLiq(_)
SumLiq(top) == IF top = <<>> THEN 0 ELSE VenueTable[Head(top)].liq_score + SumLiq(Tail(top))

\* variant of ShareOf: the last venue gets the formula share, not the remainder
ShareOf_NoRemainder(top, i, qty, remaining, c) ==
    Max(TruncDiv(qty * VenueTable[top[i]].liq_score, SumLiq(top)), c.min_child_qty)

\* run, step 4: share of the i-th selected venue, `remaining` being what is left
ShareOf(top, i, qty, remaining, c) ==
    IF i = Len(top) THEN remaining
    ELSE Max(TruncDiv(qty * VenueTable[top[i]].liq_score, SumLiq(top)), c.min_child_qty)

\* run, step 4: the shares of all selected venues, in loop order
RECURSIVE SharesFrom(_, _, _, _, _)
SharesFrom(top, i, qty, remaining, c) ==
    IF i > Len(top) THEN <<>>
    ELSE LET sh == ShareOf(top, i, qty, remaining, c)
         IN <<sh>> \o SharesFrom(top, i + 1, qty, remaining - sh, c)

Shares(top, qty, c) == SharesFrom(top, 1, qty, qty, c)

\* variant of ChildOrder: the child keeps the parent's cl_id
ChildOrder_KeepClId(o, k, share) ==
    [venue |-> k, order |-> [o EXCEPT !.qty = share]]

\* run, step 5: the child order for venue k
ChildOrder(o, k, share) ==
    [venue |-> k, order |-> [o EXCEPT !.qty = share, !.cl_id = Append(o.cl_id, k)]]

\* the children sent, in loop order: venues whose share is <= 0 are skipped
RECURSIVE ChildrenFrom(_, _, _, _)
ChildrenFrom(o, top, shares, i) ==
    IF i > Len(top) THEN <<>>
    ELSE (IF shares[i] <= 0 THEN <<>> ELSE <<ChildOrder(o, top[i], shares[i])>>)
         \o ChildrenFrom(o, top, shares, i + 1)

\* nothing routed yet
NoRouted == [parent |-> "none", top |-> <<>>, shares |-> <<>>, children |-> <<>>]

\* variant of RouterOnSnap: the change is marked seen but the view is not replaced
RouterOnSnap_KeepsView ==
    /\ ~snap_seen
    /\ last_inv' = last_inv
    /\ snap_seen' = TRUE
    /\ inv_ver' = snap_ver
    /\ inv_prev' = inv_ver
    /\ UNCHANGED <<cfg, snap, gw_q, routed, nord, rt_out, snap_ver>>

\* run, select! branch inv_snap_rx.changed(): copy the newest snapshot
RouterOnSnap ==
    /\ ~snap_seen
    /\ last_inv' = snap
    /\ snap_seen' = TRUE
    /\ inv_ver' = snap_ver
    /\ inv_prev' = inv_ver
    /\ UNCHANGED <<cfg, snap, gw_q, routed, nord, rt_out, snap_ver>>

\* the queue of venue v after the children addressed to it are appended
Enqueue(q, children, v) ==
    q \o SelectSeq(children, LAMBDA ch : ch.venue = v)

\* run, select! branch ord_rx.recv(): score, rank, split and send the children
RouterHandle(o) ==
    \E p \in Perms(Venues) :
        /\ IsRanked(p, o.px, last_inv, cfg)
        /\ LET top == TopN(p, cfg)
               shares == Shares(top, o.qty, cfg)
               children == ChildrenFrom(o, top, shares, 1)
           IN /\ \A v \in Venues : Len(Enqueue(gw_q[v], children, v)) <= QueueCap
              /\ gw_q' = [v \in Venues |-> Enqueue(gw_q[v], children, v)]
              /\ rt_out' = [v \in Venues |-> Enqueue(rt_out[v], children, v)]
              /\ routed' = [parent |-> o, top |-> top, shares |-> shares,
                            children |-> children]

RouterOnOrder ==
    /\ nord < MaxOrders
    /\ \E o \in OrderSet : RouterHandle(o)
    /\ nord' = nord + 1
    /\ UNCHANGED <<cfg, snap, snap_seen, last_inv, snap_ver, inv_ver, inv_prev>>

\* inventories a position task can publish: flat, or long / short at venues
SnapQty ==
    {[A |-> 0, B |-> 0, C |-> 0], [A |-> 5, B |-> 0, C |-> 0],
     [A |-> 0, B |-> 0, C |-> -5], [A |-> -5, B |-> 0, C |-> 5]}
SnapStates ==
    {[ZeroState(Venues) EXCEPT !.by_venue =
        [v \in Venues |-> IF f[v] = 0 THEN ZeroPos
                          ELSE [qty |-> f[v], avg_cost_px |-> 100, realized_pnl |-> 0]]] :
        f \in SnapQty}

\* snapshots published in one run of the router specification
MaxSnaps == 3

\* the position task publishes a snapshot into the watch channel (the router
\* specification takes the published state as an input): watch::Sender::send
\* replaces the value held by the channel, whether or not it has been seen
SnapPublish ==
    /\ snap_ver < MaxSnaps
    /\ \E st \in SnapStates : snap' = st
    /\ snap_seen' = FALSE
    /\ snap_ver' = snap_ver + 1
    /\ UNCHANGED <<cfg, last_inv, gw_q, routed, nord, rt_out, inv_ver, inv_prev>>

\* ========================================================================
\* Simulated venue gateway
\* ========================================================================
\* orders taken by the gateways in one run
MaxGwOrders == 2

\* ExecReport; ts_ns (a clock reading no component reads back) is left out
Report(cl_id, symbol, status, filled_qty, avg_px) ==
    [cl_id |-> cl_id, symbol |-> symbol, status |-> status,
     filled_qty |-> filled_qty, avg_px |-> avg_px]

\* child orders the router can send to venue v
GwOrderSet(v) ==
    [cl_id : {<<"CL", 100, 0, v>>, <<"CL", 100, 1, v>>}, ts_ns : {1}, symbol : Symbols,
     side : {"Buy"}, px : RouterPx, qty : {4, 6}]

\* run_venue: the Ack built for order o
AckReport(o) == Report(o.cl_id, o.symbol, "Ack", 0, 0)

\* variant of FillReport: the fill goes out as a PartialFill
FillReport_Partial(o) == Report(o.cl_id, o.symbol, "PartialFill", o.qty, o.px)

\* run_venue: the fill built for order o
FillReport(o) == Report(o.cl_id, o.symbol, "Filled", o.qty, o.px)

GwCount == Len(gw_in["A"]) + Len(gw_in["B"]) + Len(gw_in["C"])

\* variant of GwHandle: the order is acknowledged and the task takes the next
\* order without sending a fill
GwHandle_AckOnly(v, o) ==
    /\ gw_pc[v] = "recv"
    /\ Len(exec_q) < QueueCap
    /\ exec_q' = Append(exec_q, AckReport(o))
    /\ gw_in' = [gw_in EXCEPT ![v] = Append(gw_in[v], o)]
    /\ gw_out' = [gw_out EXCEPT ![v] = Append(gw_out[v], AckReport(o))]
    /\ UNCHANGED <<gw_pc, gw_cur>>

\* run_venue, first half of an iteration: recv an order and send its Ack
GwHandle(v, o) ==
    /\ gw_pc[v] = "recv"
    /\ Len(exec_q) < QueueCap
    /\ exec_q' = Append(exec_q, AckReport(o))
    /\ gw_pc' = [gw_pc EXCEPT ![v] = "sleep"]
    /\ gw_cur' = [gw_cur EXCEPT ![v] = o]
    /\ gw_in' = [gw_in EXCEPT ![v] = Append(gw_in[v], o)]
    /\ gw_out' = [gw_out EXCEPT ![v] = Append(gw_out[v], AckReport(o))]

GwOnOrder(v) ==
    /\ GwCount < MaxGwOrders
    /\ \E o \in GwOrderSet(v) : GwHandle(v, o)

\* run_venue, second half: the sleep is over, send the Filled report
GwFill(v) ==
    /\ gw_pc[v] = "sleep"
    /\ Len(exec_q) < QueueCap
    /\ exec_q' = Append(exec_q, FillReport(gw_cur[v]))
    /\ gw_pc' = [gw_pc EXCEPT ![v] = "recv"]
    /\ gw_cur' = [gw_cur EXCEPT ![v] = "none"]
    /\ gw_out' = [gw_out EXCEPT ![v] = Append(gw_out[v], FillReport(gw_cur[v]))]
    /\ UNCHANGED gw_in

\* the fan-out task takes the head of the central queue (its effect downstream
\* is left out of the gateway specification)
ExecTake ==
    /\ exec_q # <<>>
    /\ exec_q' = Tail(exec_q)
    /\ UNCHANGED <<gw_pc, gw_cur, gw_in, gw_out>>

\* ========================================================================
\* Exchange gateway: the order loop of run_venue_binance
\* ========================================================================
\* orders taken by the exchange gateway in one run
MaxBnOrders == 2

\* child orders the router can send to the exchange venue
BnOrderSet ==
    [cl_id : {<<"CL", 100, 0, "binance">>, <<"CL", 100, 1, "binance">>}, ts_ns : {1},
     symbol : Symbols, side : Sides, px : {1000}, qty : {4}]

\* outcomes of http.post(url).send(): Ok(rsp) with a status code and the result
\* of reading the body, or Err(e) with the error's Display text
RestResponses ==
    {[kind |-> "rsp", code |-> 200, body |-> [ok |-> TRUE, val |-> "{orderId:1}"]],
     [kind |-> "rsp", code |-> 400, body |-> [ok |-> TRUE, val |-> "{code:-2010}"]],
     [kind |-> "rsp", code |-> 503, body |-> [ok |-> FALSE, val |-> "decode error"]],
     [kind |-> "err", text |-> "connection refused"]}

\* variant of is_success: only server errors count as failures
is_success_Below500(code) == code < 500

\* StatusCode::is_success
is_success(code) == code >= 200 /\ code <= 299

\* rsp.text().await.unwrap_or_default()
unwrap_or_default(body) == IF body.ok THEN body.val ELSE ""

\* ExecReport with status Rejected(reason)
RejectedReport(o, reason) ==
    [cl_id |-> o.cl_id, symbol |-> o.symbol, status |-> "Rejected", reason |-> reason,
     filled_qty |-> 0, avg_px |-> 0]

\* the match on the REST response: the reports sent for order o
RestReports(o, rsp) ==
    IF rsp.kind = "rsp" /\ is_success(rsp.code) THEN <<>>
    ELSE IF rsp.kind = "rsp" THEN <<RejectedReport(o, unwrap_or_default(rsp.body))>>
    ELSE <<RejectedReport(o, rsp.text)>>

\* run_venue_binance, steps 1-2: the listen key is obtained and the user-data
\* stream task spawned, or the gateway returns
BnStart ==
    /\ bn_pc = "start"
    /\ \E ok \in BOOLEAN : bn_pc' = IF ok THEN "recv" ELSE "done"
    /\ UNCHANGED <<bn_cur, bn_in, bn_rsp, bn_out, ws_out, exec_q>>

\* step 3, first half of an iteration: recv an order, send the local Ack and
\* post the order
BnOnOrder ==
    /\ bn_pc = "recv"
    /\ Len(bn_in) < MaxBnOrders
    /\ Len(exec_q) < QueueCap
    /\ \E o \in BnOrderSet :
        /\ exec_q' = Append(exec_q, AckReport(o))
        /\ bn_cur' = o
        /\ bn_in' = Append(bn_in, o)
        /\ bn_out' = Append(bn_out, AckReport(o))
    /\ bn_pc' = "rest"
    /\ UNCHANGED <<bn_rsp, ws_out>>

\* step 3, second half: the REST response arrives; a failure is reported as
\* Rejected, then the loop paces and returns to recv
BnRest ==
    /\ bn_pc = "rest"
    /\ \E rsp \in RestResponses :
        /\ Len(exec_q) + Len(RestReports(bn_cur, rsp)) <= QueueCap
        /\ exec_q' = exec_q \o RestReports(bn_cur, rsp)
        /\ bn_out' = bn_out \o RestReports(bn_cur, rsp)
        /\ bn_rsp' = Append(bn_rsp, rsp)
    /\ bn_cur' = "none"
    /\ bn_pc' = "recv"
    /\ UNCHANGED <<bn_in, ws_out>>

\* (x * 100.0).round() as i64 for x given in thousandths: round half away from
\* zero to two decimals
round_scaled(t) == IF t >= 0 THEN (t + 5) \div 10 ELSE -((-t + 5) \div 10)

\* ORDER_TRADE_UPDATE events handled by the user-data stream task in one run
MaxWsUpdates == 1

\* order statuses (field X) the exchange sends; the last one is not among the
\* statuses the task names
WsStatuses == {"NEW", "PARTIALLY_FILLED", "FILLED", "CANCELED", "EXPIRED", "REJECTED",
               "PENDING_CANCEL"}

\* an optional numeric text field of the event: absent, or a number given in
\* thousandths ("4.000" is 4000)
WsNum(v) == [k |-> "num", v |-> v]
WsAbsent == [k |-> "absent", v |-> 0]

\* client order ids (field c) on the account's stream: a child order of the
\* router, and an id the exchange gave to an order placed outside this program
WsClientIds == {<<"CL", 100, 0, "binance">>, <<"web7">>}

\* the (z, ap) pairs of the events: cumulative filled quantity, average price
WsFillFields ==
    {<<WsAbsent, WsAbsent>>, <<WsNum(0), WsNum(0)>>, <<WsNum(4000), WsNum(10000)>>,
     <<WsNum(400), WsNum(10000)>>}

\* the order updates (field o of the envelope) the stream delivers
WsUpdates ==
    {[c |-> c, s |-> sym, X |-> x, z |-> f[1], ap |-> f[2]] :
        c \in WsClientIds, sym \in Symbols, x \in WsStatuses, f \in WsFillFields}

\* the match on ord.X: the ExecStatus and, for Rejected, its reason
MapStatus(x) ==
    IF x = "NEW" THEN [status |-> "Ack", reason |-> ""]
    ELSE IF x = "PARTIALLY_FILLED" THEN [status |-> "PartialFill", reason |-> ""]
    ELSE IF x = "FILLED" THEN [status |-> "Filled", reason |-> ""]
    ELSE IF x \in {"CANCELED", "EXPIRED"} THEN [status |-> "Rejected", reason |-> x]
    ELSE IF x = "REJECTED" THEN [status |-> "Rejected", reason |-> "REJECTED"]
    ELSE [status |-> "Ack", reason |-> ""]

\* ord.z parsed as f64, 0.0 when absent, cast to i64 (truncation toward zero)
CumFilled(z) == IF z.k = "num" THEN TruncDiv(z.v, 1000) ELSE 0

\* ord.ap parsed as f64 and scaled to two decimals, 0 when absent
AvgPx(ap) == IF ap.k = "num" THEN round_scaled(ap.v) ELSE 0

\* user_stream_ws_loop: the ExecReport built for an order update
WsReport(ord) ==
    LET m == MapStatus(ord.X)
        r == Report(ord.c, ord.s, m.status, CumFilled(ord.z), AvgPx(ord.ap))
    IN IF m.status = "Rejected"
       THEN [cl_id |-> r.cl_id, symbol |-> r.symbol, status |-> r.status, reason |-> m.reason,
             filled_qty |-> r.filled_qty, avg_px |-> r.avg_px]
       ELSE r

\* user_stream_ws_loop, one ORDER_TRADE_UPDATE text frame: the report is sent
\* to the central exec queue
UserStreamUpdate ==
    /\ bn_pc \in {"recv", "rest"}
    /\ Len(ws_out) < MaxWsUpdates
    /\ Len(exec_q) < QueueCap
    /\ \E ord \in WsUpdates :
        /\ exec_q' = Append(exec_q, WsReport(ord))
        /\ ws_out' = Append(ws_out, WsReport(ord))
    /\ UNCHANGED <<bn_pc, bn_cur, bn_in, bn_rsp, bn_out>>

\* ========================================================================
\* Positions / PnL task
\* ========================================================================
\* exec reports handled by the position task in one run
MaxFills == 2

\* the venue is the last '-'-separated piece of cl_id: split('-') yields at
\* least one piece, the whole cl_id when it holds no '-', so last() is never None
VenueOf(cl_id) == cl_id[Len(cl_id)]

\* by_venue.entry(venue).or_insert(VenuePosition::default()): the map with the
\* entry present
OrInsert(by_venue, venue, dflt) ==
    [v \in DOMAIN by_venue \cup {venue} |->
        IF v \in DOMAIN by_venue THEN by_venue[v] ELSE dflt]

\* exec reports the dispatcher can deliver: the gateways' Ack, and fill
\* states carrying the venue's cumulative quantity and average price
FillQty == {10, 11, 15}
FillPx == {100, 110}
PosClIds == {<<"CL", 100, 0, "A">>, <<"CL", 100, 1, "A">>, <<"CL", 100, 0, "C">>}
ExecReportSet ==
    {Report(c, "BTCUSDT", "Ack", 0, 0) : c \in PosClIds}
    \cup {Report(c, "BTCUSDT", "PartialFill", 10, px) : c \in PosClIds, px \in FillPx}
    \cup {Report(c, "BTCUSDT", "Filled", q, px) : c \in PosClIds, q \in FillQty, px \in FillPx}

\* market-data ticks on the bus
TickSet == {[best_bid |-> b, best_ask |-> b + 1] : b \in {100, 105, 120}}

\* run: the side inferred for an exec report
InferSide(last_mid, er) == IF last_mid <= er.avg_px THEN "Buy" ELSE "Sell"

\* on_fill: the same-direction (or flat) branch is taken
SameDirection(entry, signed_qty) ==
    entry.qty = 0 \/ Signum(entry.qty) = Signum(signed_qty)

\* on_fill: the average-cost division divides by zero (the task panics)
OnFillPanics(entry, er, side) ==
    LET signed_qty == sign(side) * er.filled_qty
    IN /\ SameDirection(entry, signed_qty)
       /\ entry.qty # 0
       /\ entry.qty + Abs(signed_qty) = 0

\* variant of OnFillEntry: avg_cost_px is not cleared when the position closes
OnFillEntry_KeepCost(entry, er, side) ==
    LET signed_qty == sign(side) * er.filled_qty
        prev_qty == entry.qty
        new_qty == prev_qty + signed_qty
    IN IF SameDirection(entry, signed_qty)
       THEN [entry EXCEPT
               !.avg_cost_px =
                   IF entry.qty = 0 THEN er.avg_px
                   ELSE TruncDiv(entry.avg_cost_px * entry.qty + er.avg_px * Abs(signed_qty),
                                 entry.qty + Abs(signed_qty)),
               !.qty = new_qty]
       ELSE LET qty_closed == Min(Abs(signed_qty), Abs(prev_qty))
                pnl == (er.avg_px - entry.avg_cost_px)
                          * (IF prev_qty > 0 THEN qty_closed ELSE -qty_closed)
            IN [entry EXCEPT
                  !.realized_pnl = entry.realized_pnl + pnl,
                  !.qty = new_qty]

\* on_fill: the venue entry after the report (when it does not panic)
OnFillEntry(entry, er, side) ==
    LET signed_qty == sign(side) * er.filled_qty
        prev_qty == entry.qty
        new_qty == prev_qty + signed_qty
    IN IF SameDirection(entry, signed_qty)
       THEN [entry EXCEPT
               !.avg_cost_px =
                   IF entry.qty = 0 THEN er.avg_px
                   ELSE TruncDiv(entry.avg_cost_px * entry.qty + er.avg_px * Abs(signed_qty),
                                 entry.qty + Abs(signed_qty)),
               !.qty = new_qty]
       ELSE LET qty_closed == Min(Abs(signed_qty), Abs(prev_qty))
                pnl == (er.avg_px - entry.avg_cost_px)
                          * (IF prev_qty > 0 THEN qty_closed ELSE -qty_closed)
            IN [entry EXCEPT
                  !.realized_pnl = entry.realized_pnl + pnl,
                  !.qty = new_qty,
                  !.avg_cost_px = IF new_qty = 0 THEN 0 ELSE entry.avg_cost_px]

RECURSIVE SumOver(_, _)
SumOver(f, S) ==
    IF S = {} THEN 0
    ELSE LET x == CHOOSE y \in S : TRUE IN f[x] + SumOver(f, S \ {x})

\* variant of Aggregate: realized_pnl is not recomputed
Aggregate_QtyOnly(st) ==
    [st EXCEPT
       !.total_qty = SumOver([v \in DOMAIN st.by_venue |-> st.by_venue[v].qty],
                             DOMAIN st.by_venue)]

\* on_fill, "agregat": total_qty and realized_pnl recomputed over by_venue
Aggregate(st) ==
    [st EXCEPT
       !.total_qty = SumOver([v \in DOMAIN st.by_venue |-> st.by_venue[v].qty],
                             DOMAIN st.by_venue),
       !.realized_pnl = SumOver([v \in DOMAIN st.by_venue |-> st.by_venue[v].realized_pnl],
                                DOMAIN st.by_venue)]

\* on_fill
on_fill(st, er, side) ==
    LET venue == VenueOf(er.cl_id)
        bv == OrInsert(st.by_venue, venue, ZeroPos)
    IN Aggregate([st EXCEPT !.by_venue = [bv EXCEPT ![venue] = OnFillEntry(bv[venue], er, side)]])

\* mark_to_market
mark_to_market(st, mid) ==
    [st EXCEPT
       !.last_mid = mid,
       !.unrealized_pnl =
           SumOver([v \in DOMAIN st.by_venue |->
                       IF st.by_venue[v].qty # 0 /\ st.by_venue[v].avg_cost_px # 0
                       THEN (mid - st.by_venue[v].avg_cost_px) * st.by_venue[v].qty
                       ELSE 0],
                   DOMAIN st.by_venue)]

\* run, the body of the md branch: mark to market and publish a snapshot
PosMark(md) ==
    LET mid == TruncDiv(md.best_bid + md.best_ask, 2)
    IN /\ pos' = mark_to_market(pos, mid)
       /\ snap' = mark_to_market(pos, mid)
       /\ snap_seen' = FALSE

\* run, select! branch md_rx.recv(): mark to market and publish a snapshot
PosOnMd ==
    /\ pos_alive
    /\ ~pos_md_off
    /\ \E md \in TickSet : PosMark(md)
    /\ UNCHANGED <<pos_alive, fills, nfill, pos_got, pos_md_off>>

\* run, select! branch exec_rx.recv(): infer the side, on_fill, publish a snapshot;
\* a division by zero in on_fill unwinds the task; the loop then starts a new
\* select! with both branches enabled
PosHandle(er) ==
    LET side == InferSide(pos.last_mid, er)
        venue == VenueOf(er.cl_id)
    IN /\ pos_got' = Append(pos_got, er)
       /\ pos_md_off' = FALSE
       /\ IF OnFillPanics(OrInsert(pos.by_venue, venue, ZeroPos)[venue], er, side)
          THEN /\ pos_alive' = FALSE
               /\ UNCHANGED <<pos, snap, snap_seen, fills>>
          ELSE /\ pos' = on_fill(pos, er, side)
               /\ snap' = on_fill(pos, er, side)
               /\ snap_seen' = FALSE
               /\ fills' = [OrInsert(fills, venue, <<>>) EXCEPT ![venue] =
                              Append(OrInsert(fills, venue, <<>>)[venue],
                                     [cl_id |-> er.cl_id, status |-> er.status, side |-> side,
                                      filled_qty |-> er.filled_qty, avg_px |-> er.avg_px])]
               /\ UNCHANGED pos_alive

PosOnExec ==
    /\ pos_alive
    /\ nfill < MaxFills
    /\ \E er \in ExecReportSet : PosHandle(er)
    /\ nfill' = nfill + 1

\* run, select! branch exec_rx.recv(), fed with the reports of the exchange
\* gateway's user-data stream
PosOnStreamExec ==
    /\ pos_alive
    /\ nfill < MaxFills
    /\ \E ord \in WsUpdates : PosHandle(WsReport(ord))
    /\ nfill' = nfill + 1

\* ========================================================================
\* Pipeline: risk -> router -> gateways -> exec fan-out -> post-trade, positions
\* ========================================================================
\* parent orders handed to the router in one pipeline run
MaxPipeOrders == 2

\* the k-th order the risk gate emits into the pipeline (cl_id "CL-<now>-<rand>",
\* the random parts taken pairwise different)
PipeOrders(k) ==
    [cl_id : {<<"CL", StartNs, k>>}, ts_ns : {1}, symbol : Symbols,
     side : Sides, px : {1000}, qty : {10}]

\* the risk gate puts an accepted order on the order queue
PipeSubmit ==
    /\ nord + Len(ord_q) < MaxPipeOrders
    /\ Len(ord_q) < QueueCap
    /\ \E o \in PipeOrders(nord + Len(ord_q)) : ord_q' = Append(ord_q, o)
    /\ UNCHANGED <<lim, now, thr, risk_res, win_ok, nsig, risk_err, risk_after, risk_sig>>

\* router::run, select! branch ord_rx.recv(), fed by the order queue
RouterRecv ==
    /\ ord_q # <<>>
    /\ RouterHandle(Head(ord_q))
    /\ ord_q' = Tail(ord_q)
    /\ nord' = nord + 1
    /\ UNCHANGED <<cfg, snap, snap_seen, last_inv, snap_ver, inv_ver, inv_prev>>

\* run_venue, first half of an iteration, fed by the venue queue
GwRecv(v) ==
    /\ gw_q[v] # <<>>
    /\ GwHandle(v, Head(gw_q[v]).order)
    /\ gw_q' = [gw_q EXCEPT ![v] = Tail(gw_q[v])]

\* exec fan-out task, first half of an iteration: recv a report from the
\* central queue and send a clone to the post-trade queue
FanOutPost ==
    /\ fan_pc = "recv"
    /\ exec_q # <<>>
    /\ Len(post_q) < QueueCap
    /\ post_q' = Append(post_q, Head(exec_q))
    /\ fan_cur' = Head(exec_q)
    /\ exec_q' = Tail(exec_q)
    /\ fan_pc' = "pos"
    /\ UNCHANGED <<to_pos_q, pos_q, post_got>>

\* variant of FanOutPos: try_send, the report is discarded when the queue is full
FanOutPos_TrySend ==
    /\ fan_pc = "pos"
    /\ to_pos_q' = IF Len(to_pos_q) < QueueCap THEN Append(to_pos_q, fan_cur) ELSE to_pos_q
    /\ fan_cur' = "none"
    /\ fan_pc' = "recv"
    /\ UNCHANGED <<post_q, pos_q, post_got>>

\* exec fan-out task, second half: send the report to the dispatcher's queue
FanOutPos ==
    /\ fan_pc = "pos"
    /\ Len(to_pos_q) < QueueCap
    /\ to_pos_q' = Append(to_pos_q, fan_cur)
    /\ fan_cur' = "none"
    /\ fan_pc' = "recv"
    /\ UNCHANGED <<post_q, pos_q, post_got>>

\* variant of Dispatch: a report whose symbol has no queue is not taken, the
\* dispatcher waits for a task of that symbol
Dispatch_WaitsForTask ==
    /\ to_pos_q # <<>>
    /\ Head(to_pos_q).symbol \in DOMAIN pos_q
    /\ Len(pos_q[Head(to_pos_q).symbol]) < QueueCap
    /\ pos_q' = [pos_q EXCEPT ![Head(to_pos_q).symbol] = Append(@, Head(to_pos_q))]
    /\ to_pos_q' = Tail(to_pos_q)
    /\ UNCHANGED <<fan_pc, fan_cur, post_q, post_got>>

\* dispatcher, one iteration: recv a report and send it to the position queue
\* of its symbol; a report whose symbol has no queue is only logged
Dispatch ==
    /\ to_pos_q # <<>>
    /\ LET er == Head(to_pos_q)
       IN IF er.symbol \in DOMAIN pos_q
          THEN /\ Len(pos_q[er.symbol]) < QueueCap
               /\ pos_q' = [pos_q EXCEPT ![er.symbol] = Append(pos_q[er.symbol], er)]
          ELSE pos_q' = pos_q
    /\ to_pos_q' = Tail(to_pos_q)
    /\ UNCHANGED <<fan_pc, fan_cur, post_q, post_got>>

\* variant of PostRecv: the newest report of the queue is taken first
PostRecv_TakesLast ==
    /\ post_q # <<>>
    /\ post_got' = Append(post_got, post_q[Len(post_q)])
    /\ post_q' = SubSeq(post_q, 1, Len(post_q) - 1)
    /\ UNCHANGED <<fan_pc, fan_cur, to_pos_q, pos_q>>

\* posttrade::run, one iteration: recv a report and log it
PostRecv ==
    /\ post_q # <<>>
    /\ post_got' = Append(post_got, Head(post_q))
    /\ post_q' = Tail(post_q)
    /\ UNCHANGED <<fan_pc, fan_cur, to_pos_q, pos_q>>

\* positions::run of symbol sym, select! branch exec_rx.recv(), fed by its queue
PosRecv(sym) ==
    /\ pos_alive
    /\ pos_q[sym] # <<>>
    /\ PosHandle(Head(pos_q[sym]))
    /\ pos_q' = [pos_q EXCEPT ![sym] = Tail(pos_q[sym])]
    /\ nfill' = nfill + 1
    /\ UNCHANGED <<fan_pc, fan_cur, post_q, to_pos_q, post_got>>

\* parent orders of one end-to-end run
MaxTradeOrders == 1

\* the risk gate puts the order of a strategy signal on the order queue: a Buy
\* at the best ask or a Sell at the best bid of the signal's tick, here 1000
TradeSubmit ==
    /\ nord + Len(ord_q) < MaxTradeOrders
    /\ Len(ord_q) < QueueCap
    /\ \E o \in PipeOrders(nord + Len(ord_q)) : ord_q' = Append(ord_q, o)
    /\ UNCHANGED <<lim, now, thr, risk_res, win_ok, nsig, risk_err, risk_after, risk_sig>>

\* ticks of the mock feed around the signal's price: the tick of a Buy signal
\* (999/1000), the tick of a Sell signal (1000/1001) and their neighbours
TradeTicks == {[best_bid |-> b, best_ask |-> b + 1] : b \in 998..1001}

\* positions::run, select! branch md_rx.recv(), with the ticks around the
\* signal's price
PosOnTradeMd ==
    /\ pos_alive
    /\ ~pos_md_off
    /\ \E md \in TradeTicks : PosMark(md)
    /\ UNCHANGED <<pos_alive, fills, nfill, pos_got, pos_md_off>>

\* the symbols of the account's user-data stream: the configured ones and one
\* that has no position task
StreamSymbols == Symbols \cup {"ETHUSDT"}

\* order updates of the stream that reach the dispatcher in one run
MaxStreamReports == 2
DispUpdates ==
    {[c |-> <<"CL", 100, 0, "binance">>, s |-> sym, X |-> x, z |-> WsNum(4000), ap |-> WsNum(10000)] :
        sym \in StreamSymbols, x \in {"NEW", "FILLED"}}

\* user_stream_ws_loop, one ORDER_TRADE_UPDATE text frame of any symbol of the
\* account: the report is sent to the central exec queue
StreamReport ==
    /\ Len(ws_out) < MaxStreamReports
    /\ Len(exec_q) < QueueCap
    /\ \E ord \in DispUpdates :
        /\ exec_q' = Append(exec_q, WsReport(ord))
        /\ ws_out' = Append(ws_out, WsReport(ord))
    /\ UNCHANGED <<bn_pc, bn_cur, bn_in, bn_rsp, bn_out>>

\* ========================================================================
\* MD bus, mean-reversion strategy worker, position task as a subscriber
\* ========================================================================
\* ticks published on the bus in one run
MaxTicks == 4
\* capacity of the broadcast ring in the model (4096 in main)
RingCap == 2
\* the subscribers of the bus in the model
Subs == {"strategy", "position"}

\* best bids a feed publishes; best_ask = best_bid + 1 as in the mock feed
FeedBids == {2, 16}

\* a feed sends a tick on the bus; ts_ns, the feed's clock, is modelled as the
\* tick's sequence number
FeedPublish ==
    /\ ~md_closed
    /\ Len(md_log) < MaxTicks
    /\ \E b \in FeedBids, sym \in Symbols :
        md_log' = Append(md_log, [ts_ns |-> Len(md_log) + 1, symbol |-> sym,
                                  best_bid |-> b, best_ask |-> b + 1])
    /\ UNCHANGED <<md_closed, md_next, md_got, since_lag>>

\* the symbols of a run with two symbols configured: one feed per symbol sends
\* on the shared bus
BusSymbols == Symbols \cup {"ETHUSDT"}

\* one of the feeds of a two-symbol run sends a tick on the bus
MultiFeedPublish ==
    /\ ~md_closed
    /\ Len(md_log) < MaxTicks
    /\ \E b \in FeedBids, sym \in BusSymbols :
        md_log' = Append(md_log, [ts_ns |-> Len(md_log) + 1, symbol |-> sym,
                                  best_bid |-> b, best_ask |-> b + 1])
    /\ UNCHANGED <<md_closed, md_next, md_got, since_lag>>

\* broadcast::Receiver::recv for subscriber sub: the tick at its position has
\* been overwritten (Err(Lagged)), is retained (Ok), or there is none and the
\* bus is closed (Err(Closed)); otherwise recv waits
MdLagged(sub) == md_next[sub] <= Len(md_log) - RingCap
MdAvail(sub) == ~MdLagged(sub) /\ md_next[sub] <= Len(md_log)
MdEnded(sub) == md_closed /\ md_next[sub] > Len(md_log)

\* recv returns Ok: the receiver moves to the next tick
MdTaken(sub) ==
    /\ md_next' = [md_next EXCEPT ![sub] = md_next[sub] + 1]
    /\ md_got' = [md_got EXCEPT ![sub] = Append(md_got[sub], md_log[md_next[sub]])]
    /\ since_lag' = [since_lag EXCEPT ![sub] = IF since_lag[sub] < 0 THEN -1
                                                 ELSE since_lag[sub] + 1]
    /\ UNCHANGED <<md_log, md_closed>>

\* recv returns Err(Lagged): the receiver moves to the oldest retained tick
MdSkipped(sub) ==
    /\ md_next' = [md_next EXCEPT ![sub] = Len(md_log) - RingCap + 1]
    /\ since_lag' = [since_lag EXCEPT ![sub] = 0]
    /\ UNCHANGED <<md_log, md_closed, md_got>>

\* MA window of the mean-reversion worker in the model (64 in strategy::run)
StratW == 2
\* edge of the mean-reversion worker, in ticks
StratEdge == 3

\* StratState::new
StratNew(w, edge) == [window |-> <<>>, sum |-> 0, edge |-> edge, w |-> w]

\* mid_price
mid_price(md) == TruncDiv(md.best_bid + md.best_ask, 2)

\* StratState::on_tick: the state after the tick
OnTickState(st, md) ==
    LET full == Len(st.window) = st.w
        w1 == IF full THEN Tail(st.window) ELSE st.window
        s1 == IF full THEN st.sum - Head(st.window) ELSE st.sum
    IN [st EXCEPT !.window = Append(w1, mid_price(md)), !.sum = s1 + mid_price(md)]

\* variant of OnTickSignal: fair is taken from the window before the current
\* mid is pushed
OnTickSignal_FairBeforeTick(st, md) ==
    LET st2 == OnTickState(st, md)
        fair == TruncDiv(st.sum, st.w)
    IN IF Len(st2.window) < st2.w THEN <<>>
       ELSE IF md.best_ask < fair - st2.edge
            THEN <<[ts_ns |-> md.ts_ns, symbol |-> md.symbol, side |-> "Buy",
                    px |-> md.best_ask, qty |-> 10]>>
       ELSE IF md.best_bid > fair + st2.edge
            THEN <<[ts_ns |-> md.ts_ns, symbol |-> md.symbol, side |-> "Sell",
                    px |-> md.best_bid, qty |-> 10]>>
       ELSE <<>>

\* StratState::on_tick: the signal returned, <<>> for None
OnTickSignal(st, md) ==
    LET st2 == OnTickState(st, md)
        fair == TruncDiv(st2.sum, st2.w)
    IN IF Len(st2.window) < st2.w THEN <<>>
       ELSE IF md.best_ask < fair - st2.edge
            THEN <<[ts_ns |-> md.ts_ns, symbol |-> md.symbol, side |-> "Buy",
                    px |-> md.best_ask, qty |-> 10]>>
       ELSE IF md.best_bid > fair + st2.edge
            THEN <<[ts_ns |-> md.ts_ns, symbol |-> md.symbol, side |-> "Sell",
                    px |-> md.best_bid, qty |-> 10]>>
       ELSE <<>>

\* the worker exists as long as a sender of the signal queue does
StratRuns == ~sig_closed

\* strategy::run, match arm Ok(md): on_tick, and send the signal if there is
\* one; a failed send is logged and the loop goes on
StratOnTick ==
    /\ StratRuns
    /\ MdAvail("strategy")
    /\ LET md == md_log[md_next["strategy"]]
           sigs == OnTickSignal(strat, md)
           failed == sigs # <<>> /\ sig_gone
       IN /\ (sigs # <<>> /\ ~sig_gone) => Len(sig_q) < QueueCap
          /\ strat' = OnTickState(strat, md)
          /\ sig_q' = IF sig_gone THEN sig_q ELSE sig_q \o sigs
          /\ strat_err' = (strat_err \/ failed)
    /\ strat_after' = IF strat_err THEN strat_after + 1 ELSE strat_after
    /\ MdTaken("strategy")
    /\ UNCHANGED strat_spin

\* strategy::run, match arm Err(e) with e = Lagged: logged, the loop goes on
StratOnLag ==
    /\ StratRuns
    /\ MdLagged("strategy")
    /\ MdSkipped("strategy")
    /\ UNCHANGED <<strat, sig_q, strat_spin, strat_err, strat_after>>

\* strategy::run, match arm Err(e) with e = Closed: logged, the loop goes on
\* (and recv returns Closed again)
StratOnClosed ==
    /\ StratRuns
    /\ MdEnded("strategy")
    /\ strat_spin' = TRUE
    /\ UNCHANGED <<strat, sig_q, strat_err, strat_after, mdVars>>

\* the risk task takes the head of the signal queue (its effect on the risk
\* gate is left out of the MD specification)
SigTake ==
    /\ sig_q # <<>>
    /\ sig_q' = Tail(sig_q)
    /\ UNCHANGED <<strat, strat_spin, strat_err, strat_after>>

\* positions::run, select! branch md_rx.recv() returning Ok(md), fed by the bus
PosMdRecv ==
    /\ pos_alive
    /\ ~pos_md_off
    /\ MdAvail("position")
    /\ PosMark(md_log[md_next["position"]])
    /\ MdTaken("position")
    /\ UNCHANGED <<pos_alive, fills, nfill, pos_got, pos_md_off>>

\* positions::run, select! branch md_rx.recv() returning Err(Lagged): the
\* pattern Ok(md) does not match, the branch is disabled for this select!,
\* which goes on waiting for exec_rx.recv() alone
PosMdLag ==
    /\ pos_alive
    /\ ~pos_md_off
    /\ MdLagged("position")
    /\ MdSkipped("position")
    /\ pos_md_off' = TRUE
    /\ UNCHANGED <<pos, snap, snap_seen, pos_alive, fills, nfill, pos_got>>

\* exec reports the dispatcher delivers to the position task in the MD
\* specification: an Ack and a fill of a child order at venue A
MdExecSet ==
    {Report(<<"CL", 100, 0, "A">>, "BTCUSDT", "Ack", 0, 0),
     Report(<<"CL", 100, 0, "A">>, "BTCUSDT", "Filled", 10, 16)}

\* the dispatcher puts a report on the position queue of its symbol
PosExecArrive ==
    /\ \E er \in MdExecSet :
        /\ nfill + Len(pos_q[er.symbol]) < MaxFills
        /\ Len(pos_q[er.symbol]) < QueueCap
        /\ pos_q' = [pos_q EXCEPT ![er.symbol] = Append(pos_q[er.symbol], er)]
    /\ UNCHANGED <<fan_pc, fan_cur, post_q, to_pos_q, post_got>>

\* ========================================================================
\* Channels that close: feed, strategy worker, risk gate
\* ========================================================================
\* risk::run, one iteration, fed by the signal queue
RiskRecv ==
    /\ RiskRuns
    /\ sig_q # <<>>
    /\ RiskHandle(Head(sig_q))
    /\ sig_q' = Tail(sig_q)
    /\ UNCHANGED <<strat, strat_spin, strat_err, strat_after>>

\* risk::run: recv returns None (queue closed and drained), the while let
\* loop ends and the task returns
RiskExit ==
    /\ RiskRuns
    /\ sig_closed
    /\ sig_q = <<>>
    /\ task_done' = task_done \cup {"risk"}
    /\ UNCHANGED <<sig_closed, sig_gone, ord_gone>>

\* every sender of the MD bus is dropped (the feeds have ended)
MdClose ==
    /\ ~md_closed
    /\ md_closed' = TRUE
    /\ UNCHANGED <<md_log, md_next, md_got, since_lag>>

\* every sender of the signal queue is dropped (the workers are gone)
SigClose ==
    /\ ~sig_closed
    /\ sig_closed' = TRUE
    /\ UNCHANGED <<sig_gone, ord_gone, task_done>>

\* the receiver of the signal queue is dropped (the risk task is gone), and
\* with it the signals still queued
SigRxDrop ==
    /\ RiskRuns
    /\ sig_gone' = TRUE
    /\ sig_q' = <<>>
    /\ UNCHANGED <<sig_closed, ord_gone, task_done, strat, strat_spin, strat_err, strat_after>>

\* the receiver of the order queue is dropped (the router is gone), and with
\* it the orders still queued
OrdRxDrop ==
    /\ ~ord_gone
    /\ ord_gone' = TRUE
    /\ ord_q' = <<>>
    /\ UNCHANGED <<sig_closed, sig_gone, task_done, lim, now, thr, risk_res, win_ok, nsig,
                   risk_err, risk_after, risk_sig>>

\* ========================================================================
\* Strategy workers with the parameters of their run functions
\* ========================================================================
\* strategy::run: StratState::new(64, 3)
MrWindow == 64
\* run_ma_crossover: MACrossState::new(16, 64, 2, 16)
MacFastW == 16
MacSlowW == 64
MacMinEdge == 2
MacCooldown == 16
\* run_vol_breakout: VolBreakoutState::new(100, 5, 20)
VbWindow == 100
VbEdge == 5
VbCooldown == 20
\* config::StrategyMode
StrategyModes == {"mean_reversion", "ma_crossover", "vol_breakout"}

\* MACrossState::new
MACrossNew(fast_w, slow_w, min_edge, cooldown_ticks) ==
    [fast_w |-> fast_w, slow_w |-> slow_w, fast_win |-> <<>>, slow_win |-> <<>>,
     fast_sum |-> 0, slow_sum |-> 0, prev_diff_sign |-> 0, min_edge |-> min_edge,
     cooldown_ticks |-> cooldown_ticks, since_last |-> cooldown_ticks]

\* MACrossState::push_window: the window and its sum after v is pushed
push_window(win, sum, cap, v) ==
    LET full == Len(win) = cap
    IN [win |-> Append(IF full THEN Tail(win) ELSE win, v),
        sum |-> (IF full THEN sum - Head(win) ELSE sum) + v]

\* MACrossState::sma, called with len > 0 only
sma(sum, len) == TruncDiv(sum, len)

\* variant of saturating_add: the addend is counted twice
saturating_add_Twice(x, y) == x + y + y

\* u32::saturating_add; a counter that starts at the cooldown and grows by one
\* per tick stays far below u32::MAX (2^32 - 1), where the sum would stop
saturating_add(x, y) == x + y

\* the Signal literal of the three on_tick functions
TickSignal(md, side, px) ==
    [ts_ns |-> md.ts_ns, symbol |-> md.symbol, side |-> side, px |-> px, qty |-> 10]

\* variant of MACrossOnTick: with no sign latched yet, the first qualifying tick
\* only latches the sign
MACrossOnTick_LatchFirst(st, md) ==
    LET m == mid_price(md)
        f == push_window(st.fast_win, st.fast_sum, st.fast_w, m)
        sl == push_window(st.slow_win, st.slow_sum, st.slow_w, m)
        st1 == [st EXCEPT !.fast_win = f.win, !.fast_sum = f.sum,
                          !.slow_win = sl.win, !.slow_sum = sl.sum,
                          !.since_last = saturating_add(st.since_last, 1)]
        diff == sma(st1.fast_sum, st1.fast_w) - sma(st1.slow_sum, st1.slow_w)
        cur_sign == IF diff > 0 THEN 1 ELSE -1
    IN IF Len(st1.fast_win) < st1.fast_w \/ Len(st1.slow_win) < st1.slow_w
       THEN [st |-> st1, sig |-> <<>>]
       ELSE IF Abs(diff) < st1.min_edge
       THEN [st |-> st1, sig |-> <<>>]
       ELSE IF st1.prev_diff_sign # 0 /\ cur_sign # st1.prev_diff_sign
               /\ st1.since_last >= st1.cooldown_ticks
       THEN [st |-> [st1 EXCEPT !.prev_diff_sign = cur_sign, !.since_last = 0],
             sig |-> IF cur_sign > 0 THEN <<TickSignal(md, "Buy", md.best_ask)>>
                                     ELSE <<TickSignal(md, "Sell", md.best_bid)>>]
       ELSE [st |-> IF st1.prev_diff_sign = 0 THEN [st1 EXCEPT !.prev_diff_sign = cur_sign]
                                               ELSE st1,
             sig |-> <<>>]

\* MACrossState::on_tick: the state after the tick and the signal returned
\* (<<>> for None)
MACrossOnTick(st, md) ==
    LET m == mid_price(md)
        f == push_window(st.fast_win, st.fast_sum, st.fast_w, m)
        sl == push_window(st.slow_win, st.slow_sum, st.slow_w, m)
        st1 == [st EXCEPT !.fast_win = f.win, !.fast_sum = f.sum,
                          !.slow_win = sl.win, !.slow_sum = sl.sum,
                          !.since_last = saturating_add(st.since_last, 1)]
        diff == sma(st1.fast_sum, st1.fast_w) - sma(st1.slow_sum, st1.slow_w)
        cur_sign == IF diff > 0 THEN 1 ELSE -1
    IN IF Len(st1.fast_win) < st1.fast_w \/ Len(st1.slow_win) < st1.slow_w
       THEN [st |-> st1, sig |-> <<>>]
       ELSE IF Abs(diff) < st1.min_edge
       THEN [st |-> st1, sig |-> <<>>]
       ELSE IF cur_sign # st1.prev_diff_sign /\ st1.since_last >= st1.cooldown_ticks
       THEN [st |-> [st1 EXCEPT !.prev_diff_sign = cur_sign, !.since_last = 0],
             sig |-> IF cur_sign > 0 THEN <<TickSignal(md, "Buy", md.best_ask)>>
                                     ELSE <<TickSignal(md, "Sell", md.best_bid)>>]
       ELSE [st |-> IF st1.prev_diff_sign = 0 THEN [st1 EXCEPT !.prev_diff_sign = cur_sign]
                                               ELSE st1,
             sig |-> <<>>]

\* stand-ins for i64::MIN / 4 and i64::MAX / 4, below and above every mid
HiFloor == -1000000000
LoCeil == 1000000000

\* VolBreakoutState::new
VolBreakoutNew(w, edge, cooldown_ticks) ==
    [w |-> w, edge |-> edge, window |-> <<>>, rolling_high |-> HiFloor,
     rolling_low |-> LoCeil, cooldown_ticks |-> cooldown_ticks,
     since_last |-> cooldown_ticks]

\* VolBreakoutState::recompute_hilo: the highest and the lowest mid of the window
recompute_hilo(win) ==
    LET his == {win[i] : i \in 1..Len(win)} \cup {HiFloor}
        los == {win[i] : i \in 1..Len(win)} \cup {LoCeil}
    IN [hi |-> CHOOSE x \in his : \A y \in his : y <= x,
        lo |-> CHOOSE x \in los : \A y \in los : x <= y]

\* VolBreakoutState::on_tick: the state after the tick and the signal returned
\* (<<>> for None); the mid is pushed before the high and the low are taken
VolBreakoutOnTick(st, md) ==
    LET m == mid_price(md)
        win == Append(IF Len(st.window) = st.w THEN Tail(st.window) ELSE st.window, m)
        st1 == [st EXCEPT !.since_last = saturating_add(st.since_last, 1), !.window = win]
        hl == recompute_hilo(win)
        st2 == [st1 EXCEPT !.rolling_high = hl.hi, !.rolling_low = hl.lo]
    IN IF Len(win) < st.w
       THEN [st |-> st1, sig |-> <<>>]
       ELSE IF st2.since_last >= st2.cooldown_ticks /\ m > st2.rolling_high + st2.edge
       THEN [st |-> [st2 EXCEPT !.since_last = 0],
             sig |-> <<TickSignal(md, "Buy", md.best_ask)>>]
       ELSE IF st2.since_last >= st2.cooldown_ticks /\ m < st2.rolling_low - st2.edge
       THEN [st |-> [st2 EXCEPT !.since_last = 0],
             sig |-> <<TickSignal(md, "Sell", md.best_bid)>>]
       ELSE [st |-> st2, sig |-> <<>>]

\* ticks the worker receives after its slow window has filled: free ticks for
\* a mean-reversion worker, blocks of equal ticks for an MA-crossover worker
MrFree == 3
MacBlocks == 5
BlockLen == 4

\* quotes <<best_bid, best_ask>> on the bus: while the window fills, afterwards
\* for a mean-reversion worker, afterwards for an MA-crossover worker
WarmQuotes == {<<10000, 10001>>, <<9999, 10001>>, <<9800, 9801>>}
MrQuotes == {<<9989, 9990>>, <<9994, 9995>>, <<9995, 9996>>, <<10003, 10004>>,
             <<10004, 10005>>, <<9000, 9990>>}
MacQuotes == {<<10000, 10001>>, <<10200, 10201>>, <<9800, 9801>>}
\* free ticks of a volatility-breakout worker, and their quotes
VbFree == 2
VbQuotes == {<<10010, 10011>>, <<10005, 10006>>, <<10000, 10001>>, <<9989, 9990>>,
             <<9700, 9701>>}

\* the ticks the worker's receiver may yield next; ts_ns, the feed's clock, is
\* modelled as the tick's sequence number
WkNextTicks ==
    LET n == Len(fed)
        warm == IF mode = "mean_reversion" THEN MrWindow
                ELSE IF mode = "ma_crossover" THEN MacSlowW ELSE VbWindow
        blk == IF mode = "ma_crossover" THEN BlockLen ELSE 1
        free == IF mode = "mean_reversion" THEN MrQuotes
                ELSE IF mode = "ma_crossover" THEN MacQuotes ELSE VbQuotes
        same == {<<fed[n].best_bid, fed[n].best_ask>>}
        quotes == IF n = 0 THEN WarmQuotes
                  ELSE IF n < warm THEN same
                  ELSE IF (n - warm) % blk = 0 THEN free
                  ELSE same
    IN {[ts_ns |-> n + 1, symbol |-> sym, best_bid |-> q[1], best_ask |-> q[2]] :
            q \in quotes, sym \in Symbols}

\* ticks fed to one worker in one run
WkMaxFeed ==
    IF mode = "mean_reversion" THEN MrWindow + MrFree
    ELSE IF mode = "ma_crossover" THEN MacSlowW + MacBlocks * BlockLen
    ELSE VbWindow + VbFree

\* main, strategy workers: a worker of the configured mode is spawned; its run
\* function starts by constructing its state
WorkerSpawn ==
    /\ mode = "none"
    /\ \E m \in StrategyModes : mode' = m
    /\ strat' = StratNew(MrWindow, StratEdge)
    /\ mac' = MACrossNew(MacFastW, MacSlowW, MacMinEdge, MacCooldown)
    /\ vb' = VolBreakoutNew(VbWindow, VbEdge, VbCooldown)
    /\ UNCHANGED <<fed, sig_log, sig_q, strat_spin, strat_err, strat_after>>

\* strategy::run, match arm Ok(md), fed by the worker's receiver
MrOnTick ==
    /\ mode = "mean_reversion"
    /\ Len(fed) < WkMaxFeed
    /\ \E md \in WkNextTicks :
        /\ strat' = OnTickState(strat, md)
        /\ sig_log' = sig_log \o OnTickSignal(strat, md)
        /\ fed' = Append(fed, md)
    /\ UNCHANGED <<mode, mac, vb, sig_q, strat_spin, strat_err, strat_after>>

\* run_ma_crossover, match arm Ok(md), fed by the worker's receiver
MacOnTick ==
    /\ mode = "ma_crossover"
    /\ Len(fed) < WkMaxFeed
    /\ \E md \in WkNextTicks :
        LET r == MACrossOnTick(mac, md)
        IN /\ mac' = r.st
           /\ sig_log' = sig_log \o r.sig
           /\ fed' = Append(fed, md)
    /\ UNCHANGED <<mode, vb, stratVars>>

\* run_vol_breakout, match arm Ok(md), fed by the worker's receiver
VbOnTick ==
    /\ mode = "vol_breakout"
    /\ Len(fed) < WkMaxFeed
    /\ \E md \in WkNextTicks :
        LET r == VolBreakoutOnTick(vb, md)
        IN /\ vb' = r.st
           /\ sig_log' = sig_log \o r.sig
           /\ fed' = Append(fed, md)
    /\ UNCHANGED <<mode, mac, stratVars>>

\* ========================================================================
\* Feeds: mock random walk and exchange bookTicker stream
\* ========================================================================
\* run_mock: the walk starts at 100.00 and never goes below 50.00 (2 decimals)
MockStartBid == 10000
MockFloor == 5000
\* run_mock: gen_range(-3..=3)
MockSteps == -3..3

\* ticks published by one feed in one run
MaxFeedTicks == 3

\* config::MarketMode, by the feed it selects
MarketModes == {"mock", "binance"}

\* the "b" and "a" fields of a bookTicker frame: absent (or not a string),
\* text that is not a number, or a number, given in thousandths (25351 for
\* "25.351")
FrameFields ==
    {[k |-> "absent", v |-> 0], [k |-> "text", v |-> 0]}
        \cup [k : {"num"}, v : {0, -10000, 99994, 100004, 100046}]

\* str::parse::<f64>().unwrap_or(0.0), in thousandths
parse_f64(x) == IF x.k = "num" THEN x.v ELSE 0

\* run_binance, handling of one text frame: the tick sent for fields b and a,
\* <<>> when the frame is skipped
WsTicks(b, a, sym) ==
    IF b.k = "absent" \/ a.k = "absent" THEN <<>>
    ELSE LET bid == round_scaled(parse_f64(b))
             ask == round_scaled(parse_f64(a))
         IN IF bid > 0 /\ ask > 0
            THEN <<[ts_ns |-> Len(md_log) + 1, symbol |-> sym,
                    best_bid |-> bid, best_ask |-> ask]>>
            ELSE <<>>

\* main, feed selection: one feed per symbol, mock or exchange stream
FeedSpawn ==
    /\ market = "none"
    /\ \E m \in MarketModes : market' = m
    /\ UNCHANGED <<px_bid, mdVars>>

\* run_mock, one iteration of the loop
MockTick ==
    /\ market = "mock"
    /\ Len(md_log) < MaxFeedTicks
    /\ \E step \in MockSteps, sym \in Symbols :
        LET b == IF px_bid + step > MockFloor THEN px_bid + step ELSE MockFloor
        IN /\ px_bid' = b
           /\ md_log' = Append(md_log, [ts_ns |-> Len(md_log) + 1, symbol |-> sym,
                                         best_bid |-> b, best_ask |-> b + 1])
    /\ UNCHANGED <<market, md_closed, md_next, md_got, since_lag>>

\* run_binance, one text frame read from the stream
WsFrame ==
    /\ market = "binance"
    /\ Len(md_log) < MaxFeedTicks
    /\ \E b \in FrameFields, a \in FrameFields, sym \in Symbols :
        md_log' = md_log \o WsTicks(b, a, sym)
    /\ UNCHANGED <<market, px_bid, md_closed, md_next, md_got, since_lag>>

\* ========================================================================
\* Specifications
\* ========================================================================
\* routerVars without the watch channel, which the position task writes
routerRest == <<cfg, last_inv, gw_q, routed, nord, rt_out, snap_ver, inv_ver, inv_prev>>

\* The state after construction (main): fresh throttle, empty channels, the
\* default snapshot in the watch channel, flat positions, idle gateways. The
\* risk specification starts from any of the limits, the router specification
\* from any of the router configurations.
InitRisk ==
    /\ lim \in LimitsSet
    /\ now = StartNs
    /\ thr = ThrFresh
    /\ ord_q = <<>>
    /\ risk_res = "none"
    /\ win_ok = 0
    /\ nsig = 0
    /\ risk_err = FALSE
    /\ risk_after = 0
    /\ risk_sig = <<>>
    /\ cfg = DefaultCfg
    /\ snap = ZeroState(Venues)
    /\ snap_seen = TRUE
    /\ last_inv = ZeroState(Venues)
    /\ gw_q = [v \in Venues |-> <<>>]
    /\ routed = NoRouted
    /\ nord = 0
    /\ rt_out = [v \in Venues |-> <<>>]
    /\ snap_ver = 0
    /\ inv_ver = 0
    /\ inv_prev = 0
    /\ gw_pc = [v \in Venues |-> "recv"]
    /\ gw_cur = [v \in Venues |-> "none"]
    /\ exec_q = <<>>
    /\ gw_in = [v \in Venues |-> <<>>]
    /\ gw_out = [v \in Venues |-> <<>>]
    /\ pos = ZeroState(Venues)
    /\ pos_alive = TRUE
    /\ fills = [v \in Venues |-> <<>>]
    /\ nfill = 0
    /\ pos_got = <<>>
    /\ pos_md_off = FALSE
    /\ fan_pc = "recv"
    /\ fan_cur = "none"
    /\ post_q = <<>>
    /\ to_pos_q = <<>>
    /\ pos_q = [s \in Symbols |-> <<>>]
    /\ post_got = <<>>
    /\ bn_pc = "start"
    /\ bn_cur = "none"
    /\ bn_in = <<>>
    /\ bn_rsp = <<>>
    /\ bn_out = <<>>
    /\ ws_out = <<>>
    /\ md_log = <<>>
    /\ md_closed = FALSE
    /\ md_next = [sub \in Subs |-> 1]
    /\ md_got = [sub \in Subs |-> <<>>]
    /\ since_lag = [sub \in Subs |-> -1]
    /\ strat = StratNew(StratW, StratEdge)
    /\ sig_q = <<>>
    /\ strat_spin = FALSE
    /\ strat_err = FALSE
    /\ strat_after = 0
    /\ sig_closed = FALSE
    /\ sig_gone = FALSE
    /\ ord_gone = FALSE
    /\ task_done = {}
    /\ mode = "none"
    /\ mac = MACrossNew(MacFastW, MacSlowW, MacMinEdge, MacCooldown)
    /\ vb = VolBreakoutNew(VbWindow, VbEdge, VbCooldown)
    /\ fed = <<>>
    /\ sig_log = <<>>
    /\ market = "none"
    /\ px_bid = MockStartBid

InitRouter ==
    /\ lim = DefaultLimits
    /\ now = StartNs
    /\ thr = ThrFresh
    /\ ord_q = <<>>
    /\ risk_res = "none"
    /\ win_ok = 0
    /\ nsig = 0
    /\ risk_err = FALSE
    /\ risk_after = 0
    /\ risk_sig = <<>>
    /\ cfg \in CfgSet
    /\ snap = ZeroState(Venues)
    /\ snap_seen = TRUE
    /\ last_inv = ZeroState(Venues)
    /\ gw_q = [v \in Venues |-> <<>>]
    /\ routed = NoRouted
    /\ nord = 0
    /\ rt_out = [v \in Venues |-> <<>>]
    /\ snap_ver = 0
    /\ inv_ver = 0
    /\ inv_prev = 0
    /\ gw_pc = [v \in Venues |-> "recv"]
    /\ gw_cur = [v \in Venues |-> "none"]
    /\ exec_q = <<>>
    /\ gw_in = [v \in Venues |-> <<>>]
    /\ gw_out = [v \in Venues |-> <<>>]
    /\ pos = ZeroState(Venues)
    /\ pos_alive = TRUE
    /\ fills = [v \in Venues |-> <<>>]
    /\ nfill = 0
    /\ pos_got = <<>>
    /\ pos_md_off = FALSE
    /\ fan_pc = "recv"
    /\ fan_cur = "none"
    /\ post_q = <<>>
    /\ to_pos_q = <<>>
    /\ pos_q = [s \in Symbols |-> <<>>]
    /\ post_got = <<>>
    /\ bn_pc = "start"
    /\ bn_cur = "none"
    /\ bn_in = <<>>
    /\ bn_rsp = <<>>
    /\ bn_out = <<>>
    /\ ws_out = <<>>
    /\ md_log = <<>>
    /\ md_closed = FALSE
    /\ md_next = [sub \in Subs |-> 1]
    /\ md_got = [sub \in Subs |-> <<>>]
    /\ since_lag = [sub \in Subs |-> -1]
    /\ strat = StratNew(StratW, StratEdge)
    /\ sig_q = <<>>
    /\ strat_spin = FALSE
    /\ strat_err = FALSE
    /\ strat_after = 0
    /\ sig_closed = FALSE
    /\ sig_gone = FALSE
    /\ ord_gone = FALSE
    /\ task_done = {}
    /\ mode = "none"
    /\ mac = MACrossNew(MacFastW, MacSlowW, MacMinEdge, MacCooldown)
    /\ vb = VolBreakoutNew(VbWindow, VbEdge, VbCooldown)
    /\ fed = <<>>
    /\ sig_log = <<>>
    /\ market = "none"
    /\ px_bid = MockStartBid

InitDefault ==
    /\ lim = DefaultLimits
    /\ now = StartNs
    /\ thr = ThrFresh
    /\ ord_q = <<>>
    /\ risk_res = "none"
    /\ win_ok = 0
    /\ nsig = 0
    /\ risk_err = FALSE
    /\ risk_after = 0
    /\ risk_sig = <<>>
    /\ cfg = DefaultCfg
    /\ snap = ZeroState(Venues)
    /\ snap_seen = TRUE
    /\ last_inv = ZeroState(Venues)
    /\ gw_q = [v \in Venues |-> <<>>]
    /\ routed = NoRouted
    /\ nord = 0
    /\ rt_out = [v \in Venues |-> <<>>]
    /\ snap_ver = 0
    /\ inv_ver = 0
    /\ inv_prev = 0
    /\ gw_pc = [v \in Venues |-> "recv"]
    /\ gw_cur = [v \in Venues |-> "none"]
    /\ exec_q = <<>>
    /\ gw_in = [v \in Venues |-> <<>>]
    /\ gw_out = [v \in Venues |-> <<>>]
    /\ pos = ZeroState(Venues)
    /\ pos_alive = TRUE
    /\ fills = [v \in Venues |-> <<>>]
    /\ nfill = 0
    /\ pos_got = <<>>
    /\ pos_md_off = FALSE
    /\ fan_pc = "recv"
    /\ fan_cur = "none"
    /\ post_q = <<>>
    /\ to_pos_q = <<>>
    /\ pos_q = [s \in Symbols |-> <<>>]
    /\ post_got = <<>>
    /\ bn_pc = "start"
    /\ bn_cur = "none"
    /\ bn_in = <<>>
    /\ bn_rsp = <<>>
    /\ bn_out = <<>>
    /\ ws_out = <<>>
    /\ md_log = <<>>
    /\ md_closed = FALSE
    /\ md_next = [sub \in Subs |-> 1]
    /\ md_got = [sub \in Subs |-> <<>>]
    /\ since_lag = [sub \in Subs |-> -1]
    /\ strat = StratNew(StratW, StratEdge)
    /\ sig_q = <<>>
    /\ strat_spin = FALSE
    /\ strat_err = FALSE
    /\ strat_after = 0
    /\ sig_closed = FALSE
    /\ sig_gone = FALSE
    /\ ord_gone = FALSE
    /\ task_done = {}
    /\ mode = "none"
    /\ mac = MACrossNew(MacFastW, MacSlowW, MacMinEdge, MacCooldown)
    /\ vb = VolBreakoutNew(VbWindow, VbEdge, VbCooldown)
    /\ fed = <<>>
    /\ sig_log = <<>>
    /\ market = "none"
    /\ px_bid = MockStartBid

NextRisk ==
    \/ RiskOnSignal /\ UNCHANGED <<routerVars, gwVars, posVars, fanVars, bnVars, mdVars, stratVars, closeVars, wkVars, feedVars>>
    \/ OrdTake /\ UNCHANGED <<routerVars, gwVars, posVars, fanVars, bnVars, mdVars, stratVars, closeVars, wkVars, feedVars>>

SpecRisk == InitRisk /\ [][NextRisk]_vars

NextRouter ==
    \/ RouterOnOrder /\ UNCHANGED <<riskVars, gwVars, posVars, fanVars, bnVars, mdVars, stratVars, closeVars, wkVars, feedVars>>
    \/ RouterOnSnap /\ UNCHANGED <<riskVars, gwVars, posVars, fanVars, bnVars, mdVars, stratVars, closeVars, wkVars, feedVars>>
    \/ SnapPublish /\ UNCHANGED <<riskVars, gwVars, posVars, fanVars, bnVars, mdVars, stratVars, closeVars, wkVars, feedVars>>

SpecRouter == InitRouter /\ [][NextRouter]_vars

NextGateway ==
    \/ \E v \in Venues : GwOnOrder(v) /\ UNCHANGED <<riskVars, routerVars, posVars, fanVars, bnVars, mdVars, stratVars, closeVars, wkVars, feedVars>>
    \/ \E v \in Venues : GwFill(v) /\ UNCHANGED <<riskVars, routerVars, posVars, fanVars, bnVars, mdVars, stratVars, closeVars, wkVars, feedVars>>
    \/ ExecTake /\ UNCHANGED <<riskVars, routerVars, posVars, fanVars, bnVars, mdVars, stratVars, closeVars, wkVars, feedVars>>

SpecGateway == InitDefault /\ [][NextGateway]_vars

NextPos ==
    \/ PosOnMd /\ UNCHANGED <<riskVars, routerRest, gwVars, fanVars, bnVars, mdVars, stratVars, closeVars, wkVars, feedVars>>
    \/ PosOnExec /\ UNCHANGED <<riskVars, routerRest, gwVars, fanVars, bnVars, mdVars, stratVars, closeVars, wkVars, feedVars>>

SpecPos == InitDefault /\ [][NextPos]_vars

NextPosWs ==
    \/ PosOnMd /\ UNCHANGED <<riskVars, routerRest, gwVars, fanVars, bnVars, mdVars, stratVars, closeVars, wkVars, feedVars>>
    \/ PosOnStreamExec /\ UNCHANGED <<riskVars, routerRest, gwVars, fanVars, bnVars, mdVars, stratVars, closeVars, wkVars, feedVars>>

SpecPosWs == InitDefault /\ [][NextPosWs]_vars

NextBinance ==
    \/ BnStart /\ UNCHANGED <<riskVars, routerVars, gw_pc, gw_cur, gw_in, gw_out, posVars, fanVars, mdVars, stratVars, closeVars, wkVars, feedVars>>
    \/ BnOnOrder /\ UNCHANGED <<riskVars, routerVars, gw_pc, gw_cur, gw_in, gw_out, posVars, fanVars, mdVars, stratVars, closeVars, wkVars, feedVars>>
    \/ BnRest /\ UNCHANGED <<riskVars, routerVars, gw_pc, gw_cur, gw_in, gw_out, posVars, fanVars, mdVars, stratVars, closeVars, wkVars, feedVars>>
    \/ UserStreamUpdate /\ UNCHANGED <<riskVars, routerVars, gw_pc, gw_cur, gw_in, gw_out, posVars, fanVars, mdVars, stratVars, closeVars, wkVars, feedVars>>
    \/ ExecTake /\ UNCHANGED <<riskVars, routerVars, posVars, fanVars, bn_pc, bn_cur, bn_in, bn_rsp, bn_out, ws_out, mdVars, stratVars, closeVars, wkVars, feedVars>>

SpecBinance == InitDefault /\ [][NextBinance]_vars

NextMd ==
    \/ FeedPublish /\ UNCHANGED <<riskVars, routerVars, gwVars, posVars, fanVars, bnVars, stratVars, closeVars, wkVars, feedVars>>
    \/ StratOnTick /\ UNCHANGED <<riskVars, routerVars, gwVars, posVars, fanVars, bnVars, closeVars, wkVars, feedVars>>
    \/ StratOnLag /\ UNCHANGED <<riskVars, routerVars, gwVars, posVars, fanVars, bnVars, closeVars, wkVars, feedVars>>
    \/ SigTake /\ UNCHANGED <<riskVars, routerVars, gwVars, posVars, fanVars, bnVars, mdVars, closeVars, wkVars, feedVars>>
    \/ PosMdRecv /\ UNCHANGED <<riskVars, routerRest, gwVars, fanVars, bnVars, stratVars, closeVars, wkVars, feedVars>>
    \/ PosMdLag /\ UNCHANGED <<riskVars, routerVars, gwVars, fanVars, bnVars, stratVars, closeVars, wkVars, feedVars>>
    \/ PosExecArrive /\ UNCHANGED <<riskVars, routerVars, gwVars, posVars, bnVars, mdVars, stratVars, closeVars, wkVars, feedVars>>
    \/ \E sym \in Symbols : PosRecv(sym) /\ UNCHANGED <<riskVars, routerRest, gwVars, bnVars, mdVars, stratVars, closeVars, wkVars, feedVars>>

SpecMd == InitDefault /\ [][NextMd]_vars

NextLife ==
    \/ FeedPublish /\ UNCHANGED <<riskVars, routerVars, gwVars, posVars, fanVars, bnVars, stratVars, closeVars, wkVars, feedVars>>
    \/ StratOnTick /\ UNCHANGED <<riskVars, routerVars, gwVars, posVars, fanVars, bnVars, closeVars, wkVars, feedVars>>
    \/ StratOnLag /\ UNCHANGED <<riskVars, routerVars, gwVars, posVars, fanVars, bnVars, closeVars, wkVars, feedVars>>
    \/ StratOnClosed /\ UNCHANGED <<riskVars, routerVars, gwVars, posVars, fanVars, bnVars, closeVars, wkVars, feedVars>>
    \/ RiskRecv /\ UNCHANGED <<routerVars, gwVars, posVars, fanVars, bnVars, mdVars, closeVars, wkVars, feedVars>>
    \/ RiskExit /\ UNCHANGED <<riskVars, routerVars, gwVars, posVars, fanVars, bnVars, mdVars, stratVars, wkVars, feedVars>>
    \/ OrdTake /\ UNCHANGED <<routerVars, gwVars, posVars, fanVars, bnVars, mdVars, stratVars, closeVars, wkVars, feedVars>>
    \/ MdClose /\ UNCHANGED <<riskVars, routerVars, gwVars, posVars, fanVars, bnVars, stratVars, closeVars, wkVars, feedVars>>
    \/ SigClose /\ UNCHANGED <<riskVars, routerVars, gwVars, posVars, fanVars, bnVars, mdVars, stratVars, wkVars, feedVars>>
    \/ SigRxDrop /\ UNCHANGED <<riskVars, routerVars, gwVars, posVars, fanVars, bnVars, mdVars, wkVars, feedVars>>
    \/ OrdRxDrop /\ UNCHANGED <<routerVars, gwVars, posVars, fanVars, bnVars, mdVars, stratVars, wkVars, feedVars>>

SpecLife == InitDefault /\ [][NextLife]_vars

NextPipe ==
    \/ PipeSubmit /\ UNCHANGED <<routerVars, gwVars, posVars, fanVars, bnVars, mdVars, stratVars, closeVars, wkVars, feedVars>>
    \/ RouterRecv /\ UNCHANGED <<lim, now, thr, risk_res, win_ok, nsig, risk_err, risk_after, risk_sig, gwVars, posVars, fanVars, bnVars, mdVars, stratVars, closeVars, wkVars, feedVars>>
    \/ \E v \in Venues :
          GwRecv(v) /\ UNCHANGED <<riskVars, cfg, snap, snap_seen, last_inv, routed, nord,
                                   rt_out, snap_ver, inv_ver, inv_prev, posVars, fanVars, bnVars, mdVars, stratVars, closeVars, wkVars, feedVars>>
    \/ \E v \in Venues : GwFill(v) /\ UNCHANGED <<riskVars, routerVars, posVars, fanVars, bnVars, mdVars, stratVars, closeVars, wkVars, feedVars>>
    \/ FanOutPost /\ UNCHANGED <<riskVars, routerVars, gw_pc, gw_cur, gw_in, gw_out, posVars, bnVars, mdVars, stratVars, closeVars, wkVars, feedVars>>
    \/ FanOutPos /\ UNCHANGED <<riskVars, routerVars, gwVars, posVars, bnVars, mdVars, stratVars, closeVars, wkVars, feedVars>>
    \/ Dispatch /\ UNCHANGED <<riskVars, routerVars, gwVars, posVars, bnVars, mdVars, stratVars, closeVars, wkVars, feedVars>>
    \/ PostRecv /\ UNCHANGED <<riskVars, routerVars, gwVars, posVars, bnVars, mdVars, stratVars, closeVars, wkVars, feedVars>>
    \/ \E sym \in Symbols : PosRecv(sym) /\ UNCHANGED <<riskVars, routerRest, gwVars, bnVars, mdVars, stratVars, closeVars, wkVars, feedVars>>

SpecPipe == InitDefault /\ [][NextPipe]_vars

NextTrade ==
    \/ TradeSubmit /\ UNCHANGED <<routerVars, gwVars, posVars, fanVars, bnVars, mdVars, stratVars, closeVars, wkVars, feedVars>>
    \/ RouterRecv /\ UNCHANGED <<lim, now, thr, risk_res, win_ok, nsig, risk_err, risk_after, risk_sig, gwVars, posVars, fanVars, bnVars, mdVars, stratVars, closeVars, wkVars, feedVars>>
    \/ \E v \in Venues :
          GwRecv(v) /\ UNCHANGED <<riskVars, cfg, snap, snap_seen, last_inv, routed, nord,
                                   rt_out, snap_ver, inv_ver, inv_prev, posVars, fanVars, bnVars, mdVars, stratVars, closeVars, wkVars, feedVars>>
    \/ \E v \in Venues : GwFill(v) /\ UNCHANGED <<riskVars, routerVars, posVars, fanVars, bnVars, mdVars, stratVars, closeVars, wkVars, feedVars>>
    \/ FanOutPost /\ UNCHANGED <<riskVars, routerVars, gw_pc, gw_cur, gw_in, gw_out, posVars, bnVars, mdVars, stratVars, closeVars, wkVars, feedVars>>
    \/ FanOutPos /\ UNCHANGED <<riskVars, routerVars, gwVars, posVars, bnVars, mdVars, stratVars, closeVars, wkVars, feedVars>>
    \/ Dispatch /\ UNCHANGED <<riskVars, routerVars, gwVars, posVars, bnVars, mdVars, stratVars, closeVars, wkVars, feedVars>>
    \/ PostRecv /\ UNCHANGED <<riskVars, routerVars, gwVars, posVars, bnVars, mdVars, stratVars, closeVars, wkVars, feedVars>>
    \/ \E sym \in Symbols : PosRecv(sym) /\ UNCHANGED <<riskVars, routerRest, gwVars, bnVars, mdVars, stratVars, closeVars, wkVars, feedVars>>
    \/ PosOnTradeMd /\ UNCHANGED <<riskVars, routerRest, gwVars, fanVars, bnVars, mdVars, stratVars, closeVars, wkVars, feedVars>>

SpecTrade == InitDefault /\ [][NextTrade]_vars

NextPosBus ==
    \/ MultiFeedPublish /\ UNCHANGED <<riskVars, routerVars, gwVars, posVars, fanVars, bnVars, stratVars, closeVars, wkVars, feedVars>>
    \/ PosMdRecv /\ UNCHANGED <<riskVars, routerRest, gwVars, fanVars, bnVars, stratVars, closeVars, wkVars, feedVars>>
    \/ PosMdLag /\ UNCHANGED <<riskVars, routerVars, gwVars, fanVars, bnVars, stratVars, closeVars, wkVars, feedVars>>
    \/ PosExecArrive /\ UNCHANGED <<riskVars, routerVars, gwVars, posVars, bnVars, mdVars, stratVars, closeVars, wkVars, feedVars>>
    \/ \E sym \in Symbols : PosRecv(sym) /\ UNCHANGED <<riskVars, routerRest, gwVars, bnVars, mdVars, stratVars, closeVars, wkVars, feedVars>>

SpecPosBus == InitDefault /\ [][NextPosBus]_vars

NextStratBus ==
    \/ MultiFeedPublish /\ UNCHANGED <<riskVars, routerVars, gwVars, posVars, fanVars, bnVars, stratVars, closeVars, wkVars, feedVars>>
    \/ StratOnTick /\ UNCHANGED <<riskVars, routerVars, gwVars, posVars, fanVars, bnVars, closeVars, wkVars, feedVars>>
    \/ StratOnLag /\ UNCHANGED <<riskVars, routerVars, gwVars, posVars, fanVars, bnVars, closeVars, wkVars, feedVars>>

SpecStratBus == InitDefault /\ [][NextStratBus]_vars

\* the steps of the exec fan-out, the dispatcher, the post-trade logger and the
\* position tasks, with the variables they leave alone
DispFanOutPost == FanOutPost /\ UNCHANGED <<riskVars, routerVars, gw_pc, gw_cur, gw_in, gw_out, posVars, bnVars, mdVars, stratVars, closeVars, wkVars, feedVars>>
DispFanOutPos == FanOutPos /\ UNCHANGED <<riskVars, routerVars, gwVars, posVars, bnVars, mdVars, stratVars, closeVars, wkVars, feedVars>>
DispDispatch == Dispatch /\ UNCHANGED <<riskVars, routerVars, gwVars, posVars, bnVars, mdVars, stratVars, closeVars, wkVars, feedVars>>
DispPostRecv == PostRecv /\ UNCHANGED <<riskVars, routerVars, gwVars, posVars, bnVars, mdVars, stratVars, closeVars, wkVars, feedVars>>
DispPosRecv(sym) == PosRecv(sym) /\ UNCHANGED <<riskVars, routerRest, gwVars, bnVars, mdVars, stratVars, closeVars, wkVars, feedVars>>

NextDisp ==
    \/ StreamReport /\ UNCHANGED <<riskVars, routerVars, gw_pc, gw_cur, gw_in, gw_out, posVars, fanVars, mdVars, stratVars, closeVars, wkVars, feedVars>>
    \/ DispFanOutPost
    \/ DispFanOutPos
    \/ DispDispatch
    \/ DispPostRecv
    \/ \E sym \in Symbols : DispPosRecv(sym)

SpecDisp == InitDefault /\ [][NextDisp]_vars

\* every spawned task that can take a step is polled by the runtime
FairSpecDisp ==
    /\ SpecDisp
    /\ WF_vars(DispFanOutPost)
    /\ WF_vars(DispFanOutPos)
    /\ WF_vars(DispDispatch)
    /\ WF_vars(DispPostRecv)
    /\ \A sym \in Symbols : WF_vars(DispPosRecv(sym))

\* the steps of the risk gate's output, the router and the gateways, with the
\* variables they leave alone
FlowSubmit == TradeSubmit /\ UNCHANGED <<routerVars, gwVars, posVars, fanVars, bnVars, mdVars, stratVars, closeVars, wkVars, feedVars>>
FlowRouterRecv == RouterRecv /\ UNCHANGED <<lim, now, thr, risk_res, win_ok, nsig, risk_err, risk_after, risk_sig, gwVars, posVars, fanVars, bnVars, mdVars, stratVars, closeVars, wkVars, feedVars>>
FlowRouterOnSnap == RouterOnSnap /\ UNCHANGED <<riskVars, gwVars, posVars, fanVars, bnVars, mdVars, stratVars, closeVars, wkVars, feedVars>>
FlowGwRecv(v) ==
    GwRecv(v) /\ UNCHANGED <<riskVars, cfg, snap, snap_seen, last_inv, routed, nord,
                             rt_out, snap_ver, inv_ver, inv_prev, posVars, fanVars, bnVars, mdVars, stratVars, closeVars, wkVars, feedVars>>
FlowGwFill(v) == GwFill(v) /\ UNCHANGED <<riskVars, routerVars, posVars, fanVars, bnVars, mdVars, stratVars, closeVars, wkVars, feedVars>>
\* the tick of a Sell signal, which the position task may see before the fills
FlowTicks == {[best_bid |-> 1000, best_ask |-> 1001]}

\* positions::run, select! branch md_rx.recv(), with the signal's tick
PosOnFlowMd ==
    /\ pos_alive
    /\ ~pos_md_off
    /\ \E md \in FlowTicks : PosMark(md)
    /\ UNCHANGED <<pos_alive, fills, nfill, pos_got, pos_md_off>>

FlowPosOnMd == PosOnFlowMd /\ UNCHANGED <<riskVars, routerRest, gwVars, fanVars, bnVars, mdVars, stratVars, closeVars, wkVars, feedVars>>

NextFlow ==
    \/ FlowSubmit
    \/ FlowRouterRecv
    \/ FlowRouterOnSnap
    \/ \E v \in Venues : FlowGwRecv(v)
    \/ \E v \in Venues : FlowGwFill(v)
    \/ DispFanOutPost
    \/ DispFanOutPos
    \/ DispDispatch
    \/ DispPostRecv
    \/ \E sym \in Symbols : DispPosRecv(sym)
    \/ FlowPosOnMd

SpecFlow == InitDefault /\ [][NextFlow]_vars

\* every spawned task that can take a step is polled by the runtime; the risk
\* gate's output and the feed's ticks are not forced
FairSpecFlow ==
    /\ SpecFlow
    /\ WF_vars(FlowRouterRecv)
    /\ WF_vars(FlowRouterOnSnap)
    /\ \A v \in Venues : WF_vars(FlowGwRecv(v))
    /\ \A v \in Venues : WF_vars(FlowGwFill(v))
    /\ WF_vars(DispFanOutPost)
    /\ WF_vars(DispFanOutPos)
    /\ WF_vars(DispDispatch)
    /\ WF_vars(DispPostRecv)
    /\ \A sym \in Symbols : WF_vars(DispPosRecv(sym))

WkRest == <<riskVars, routerVars, gwVars, posVars, fanVars, bnVars, mdVars, closeVars, feedVars>>

NextStrat ==
    \/ WorkerSpawn /\ UNCHANGED WkRest
    \/ MrOnTick /\ UNCHANGED WkRest
    \/ MacOnTick /\ UNCHANGED WkRest
    \/ VbOnTick /\ UNCHANGED WkRest

SpecStrat == InitDefault /\ [][NextStrat]_vars

FeedRest == <<riskVars, routerVars, gwVars, posVars, fanVars, bnVars, stratVars, closeVars, wkVars>>

NextFeed ==
    \/ FeedSpawn /\ UNCHANGED FeedRest
    \/ MockTick /\ UNCHANGED FeedRest
    \/ WsFrame /\ UNCHANGED FeedRest

SpecFeed == InitDefault /\ [][NextFeed]_vars

\* ========================================================================
\* Properties of the risk gate (SpecRisk)
\* ========================================================================
\* C1: every order the risk gate emits has px_min <= px <= px_max and
\* px * qty <= max_notional, the product taken exactly (a product beyond the
\* integer width exceeds max_notional).
C1_EmittedWithinLimits ==
    \A i \in 1..Len(ord_q) :
        /\ ord_q[i].px >= lim.px_min
        /\ ord_q[i].px <= lim.px_max
        /\ ord_q[i].px * ord_q[i].qty <= lim.max_notional

\* C2: the orders accepted with clock readings inside one 20 ms window
\* [last_ns, last_ns + 20 ms) number at most max_qps.
C2_AtMostMaxQpsPerWindow == win_ok <= lim.max_qps

\* ========================================================================
\* Properties of the router (SpecRouter)
\* ========================================================================
RECURSIVE SumChildQty(_)
SumChildQty(children) ==
    IF children = <<>> THEN 0 ELSE Head(children).order.qty + SumChildQty(Tail(children))

AllSharesPositive == \A i \in 1..Len(routed.shares) : routed.shares[i] > 0

\* C3: when every computed share of the routed parent is > 0, the quantities
\* of the children sent for it add up to the parent's quantity.
C3_ChildSumEqualsParent ==
    (routed.top # <<>> /\ AllSharesPositive)
        => SumChildQty(routed.children) = routed.parent.qty

\* a parent of quantity 7 split over three venues, every share > 0
C3_Witness ==
    /\ routed.top # <<>>
    /\ routed.parent.qty = 7
    /\ Len(routed.children) = 3
    /\ AllSharesPositive

\* the default configuration routed a parent of quantity 10 with the router
\* seeing a flat inventory at every venue
DefaultSplitOfTen ==
    /\ routed.top # <<>>
    /\ cfg = DefaultCfg
    /\ \A v \in Venues : last_inv.by_venue[v].qty = 0
    /\ routed.parent.qty = 10

\* the quantity sent to venue v for the routed parent (0 when none)
QtySentTo(v) ==
    SumChildQty(SelectSeq(routed.children, LAMBDA ch : ch.venue = v))

\* C4 as claimed: default configuration, flat inventory, quantity 10: 4 goes to
\* venue A, 6 to venue C and nothing to B.
C4_SplitFourToASixToC ==
    DefaultSplitOfTen
        => /\ QtySentTo("A") = 4
           /\ QtySentTo("C") = 6
           /\ QtySentTo("B") = 0
           /\ Len(routed.children) = 2

\* C4 amended: default configuration, flat inventory, quantity 10: exactly two
\* children, first max(10*90/160, 2) = 5 to venue C (the best-ranked venue), then
\* the remaining 5 to venue A, and nothing to B.
C4_SplitFiveToCFiveToA ==
    DefaultSplitOfTen
        => /\ Len(routed.children) = 2
           /\ routed.children[1] = ChildOrder(routed.parent, "C", 5)
           /\ routed.children[2] = ChildOrder(routed.parent, "A", 5)
           /\ gw_q["B"] = <<>>

C4_Witness == DefaultSplitOfTen /\ gw_q["C"] # <<>> /\ gw_q["A"] # <<>>

\* C19: the snapshot channel holds the latest value only: a snapshot can be
\* published whatever the router has seen (the publisher never waits), the
\* router's view is never ahead of the channel, a refresh leaves the router with
\* the newest snapshot published so far, and its view never goes back to an
\* older one.
C19_RouterViewIsLatestOnRefresh ==
    /\ [](snap_ver < MaxSnaps => ENABLED SnapPublish)
    /\ [](inv_prev <= inv_ver /\ inv_ver <= snap_ver)
    /\ [](snap_seen => (last_inv = snap /\ inv_ver = snap_ver))
    /\ [][inv_ver' >= inv_ver]_vars

\* three snapshots were published while the router was busy; its refresh
\* skipped the first two and took the third
C19_Witness ==
    /\ snap_ver = 3
    /\ inv_prev = 0
    /\ inv_ver = 3
    /\ snap_seen
    /\ last_inv = snap
    /\ last_inv # ZeroState(Venues)

\* the signal breaks the notional limit / lies outside the price band
OverNotional(sig) == saturating_mul(sig.px, sig.qty) > lim.max_notional
OutOfBand(sig) == sig.px < lim.px_min \/ sig.px > lim.px_max

\* C28: the risk gate tests notional, then price band, then throttle: the
\* rejection kind is that of the first failing check (a signal breaking both
\* notional and band is rejected as Notional), and a rejection by the notional
\* or price-band check leaves the throttle state (last_ns, counter) unchanged.
C28_FirstFailingCheckDecides ==
    [][nsig' # nsig =>
         LET sig == risk_sig'[1]
         IN /\ OverNotional(sig) => risk_res' = "Notional"
            /\ (~OverNotional(sig) /\ OutOfBand(sig)) => risk_res' = "PriceBand"
            /\ (~OverNotional(sig) /\ ~OutOfBand(sig)) => risk_res' \in {"Ok", "Throttle"}
            /\ risk_res' \in {"Notional", "PriceBand"} => thr' = thr]_vars

\* a signal breaking both limits was rejected as Notional while the throttle
\* window was open with its counter used
C28_Witness ==
    /\ risk_sig # <<>>
    /\ OverNotional(risk_sig[1])
    /\ OutOfBand(risk_sig[1])
    /\ risk_res = "Notional"
    /\ thr.counter = 1
    /\ nsig = 3

\* the final score of venue v as the routing rule states it
RuleScore(v, px, inv, weight) ==
    VenueTable[v].liq_score - (VenueTable[v].fee_bps * px) \div 10000
        - VenueTable[v].est_latency_ms - Signum(inv.by_venue[v].qty) * weight

\* C27: for every order the children go only to the top_n venues by descending
\* final score (liq_score - fee_bps * px / 10000 - est_latency_ms - sign of the
\* venue's quantity in the router's snapshot * inv_bias_weight), at most one
\* child per venue and at most top_n children per parent.
C27_ChildrenGoToTopScores ==
    [][nord' # nord =>
         LET ch == routed'.children
             px == routed'.parent.px
             sc(v) == RuleScore(v, px, last_inv, cfg.inv_bias_weight)
         IN /\ Len(ch) <= cfg.top_n
            /\ \A i, j \in 1..Len(ch) : i # j => ch[i].venue # ch[j].venue
            /\ \A i \in 1..Len(ch) :
                  Cardinality({v \in Venues : sc(v) > sc(ch[i].venue)}) < cfg.top_n]_vars

\* with top_n = 1, weight 10 and a snapshot short at A and long at C, the
\* single child went to A, which the bias lifts above C (77 against 74)
C27_Witness ==
    /\ cfg.top_n = 1
    /\ cfg.inv_bias_weight = 10
    /\ last_inv.by_venue["A"].qty < 0
    /\ last_inv.by_venue["C"].qty > 0
    /\ routed.top # <<>>
    /\ routed.parent.px = 1000
    /\ Len(routed.children) = 1
    /\ routed.children[1].venue = "A"
    /\ inv_ver = snap_ver

\* ========================================================================
\* Properties of the positions task (SpecPos)
\* ========================================================================
RECURSIVE SignedSum(_)
SignedSum(fs) ==
    IF fs = <<>> THEN 0
    ELSE sign(Head(fs).side) * Head(fs).filled_qty + SignedSum(Tail(fs))

\* every report handled for the venue was a Filled with filled_qty > 0, avg_px > 0
OnlyRealFills(fs) ==
    \A i \in 1..Len(fs) :
        fs[i].status = "Filled" /\ fs[i].filled_qty > 0 /\ fs[i].avg_px > 0

\* C5: after any sequence of fills (filled_qty > 0, avg_px > 0) at a venue that
\* started flat, qty is the signed sum of the fills and avg_cost_px > 0 exactly
\* when qty # 0.
C5_QtyIsSignedSumAndCostIffOpen ==
    \A v \in Venues :
        OnlyRealFills(fills[v])
            => /\ pos.by_venue[v].qty = SignedSum(fills[v])
               /\ (pos.by_venue[v].avg_cost_px > 0 <=> pos.by_venue[v].qty # 0)

\* C6: total_qty and realized_pnl of the symbol state are the sums of the
\* venues' qty and realized_pnl, in the task's state and in the snapshot it
\* published.
C6_AggregatesAreVenueSums ==
    /\ pos.total_qty
         = pos.by_venue["A"].qty + pos.by_venue["B"].qty + pos.by_venue["C"].qty
    /\ pos.realized_pnl
         = pos.by_venue["A"].realized_pnl + pos.by_venue["B"].realized_pnl
             + pos.by_venue["C"].realized_pnl
    /\ snap.total_qty
         = snap.by_venue["A"].qty + snap.by_venue["B"].qty + snap.by_venue["C"].qty
    /\ snap.realized_pnl
         = snap.by_venue["A"].realized_pnl + snap.by_venue["B"].realized_pnl
             + snap.by_venue["C"].realized_pnl

\* after two reports some PnL has been realized and the symbol is not flat
C6_Witness ==
    /\ nfill >= 2
    /\ pos.realized_pnl # 0
    /\ pos.total_qty # 0

\* the venue's history is exactly two Filled reports with the given sides,
\* sizes and prices
TwoFills(v, s1, q1, p1, s2, q2, p2) ==
    /\ Len(fills[v]) = 2
    /\ fills[v][1].status = "Filled" /\ fills[v][2].status = "Filled"
    /\ fills[v][1].side = s1 /\ fills[v][1].filled_qty = q1 /\ fills[v][1].avg_px = p1
    /\ fills[v][2].side = s2 /\ fills[v][2].filled_qty = q2 /\ fills[v][2].avg_px = p2

\* C7: Buy 10 at 100 then Sell 15 at 110 on a flat venue leaves qty = -5,
\* realized_pnl = 100 and avg_cost_px = 110.
C7_FlipTakesNewCost ==
    \A v \in Venues :
        TwoFills(v, "Buy", 10, 100, "Sell", 15, 110)
            => pos.by_venue[v] = [qty |-> -5, avg_cost_px |-> 110, realized_pnl |-> 100]

\* C8: a fill of size Q at price p followed by an opposite fill of size Q at p,
\* on a flat venue, leaves qty = 0, avg_cost_px = 0, realized_pnl = 0.
C8_RoundTripIsFlat ==
    \A v \in Venues : \A s \in Sides : \A q \in FillQty : \A p \in FillPx :
        TwoFills(v, s, q, p, IF s = "Buy" THEN "Sell" ELSE "Buy", q, p)
            => pos.by_venue[v] = ZeroPos

\* a short opened and bought back at the same price
C8_Witness == TwoFills("A", "Sell", 11, 110, "Buy", 11, 110)

\* C9: PartialFill(cl_id, cumulative a) then Filled(cl_id, cumulative b >= a),
\* both booked on the same side of a flat venue, move the position by b.
C9_CumulativeBookedOnce ==
    \A v \in Venues :
        ( /\ Len(fills[v]) = 2
          /\ fills[v][1].status = "PartialFill"
          /\ fills[v][2].status = "Filled"
          /\ fills[v][1].cl_id = fills[v][2].cl_id
          /\ fills[v][1].side = fills[v][2].side
          /\ fills[v][2].filled_qty >= fills[v][1].filled_qty )
            => Abs(pos.by_venue[v].qty) = fills[v][2].filled_qty

\* ========================================================================
\* Properties of the simulated gateway (SpecGateway)
\* ========================================================================
\* C10: the reports a gateway has emitted are, order by order, one Ack
\* (filled_qty = 0, avg_px = 0) then one Filled (filled_qty = order.qty,
\* avg_px = order.px) with the order's cl_id; only the Filled of the order in
\* its fill delay is outstanding; nothing else is ever emitted.
C10_AckThenFilledPerOrder ==
    \A v \in Venues :
        /\ Len(gw_out[v]) = 2 * Len(gw_in[v]) - (IF gw_pc[v] = "sleep" THEN 1 ELSE 0)
        /\ \A i \in 1..Len(gw_out[v]) :
            LET o == gw_in[v][(i + 1) \div 2]
                r == gw_out[v][i]
            IN /\ r.cl_id = o.cl_id
               /\ IF i % 2 = 1
                  THEN r.status = "Ack" /\ r.filled_qty = 0 /\ r.avg_px = 0
                  ELSE r.status = "Filled" /\ r.filled_qty = o.qty /\ r.avg_px = o.px

\* a gateway has answered two orders in full
C10_Witness == \E v \in Venues : Len(gw_in[v]) = 2 /\ Len(gw_out[v]) = 4

\* ========================================================================
\* Properties of the pipeline (SpecPipe)
\* ========================================================================
\* number of occurrences of r in the sequence q
Count(q, r) == Len(SelectSeq(q, LAMBDA x : x = r))

Range(q) == {q[i] : i \in 1..Len(q)}

\* the reports the gateways have put on the central exec queue
Emitted(r) == Count(gw_out["A"], r) + Count(gw_out["B"], r) + Count(gw_out["C"], r)

\* the report the fan-out holds between its two sends
FanHeld == IF fan_pc = "pos" THEN <<fan_cur>> ELSE <<>>

\* every report that is anywhere between the gateways and the consumers
AllReports ==
    UNION {Range(gw_out[v]) : v \in Venues} \cup Range(exec_q) \cup Range(post_q)
        \cup Range(post_got) \cup Range(FanHeld) \cup Range(to_pos_q)
        \cup UNION {Range(pos_q[sym]) : sym \in Symbols} \cup Range(pos_got)

\* C11: every report a gateway put on the central queue is, exactly once, on
\* its way to or received by the post-trade logger, and exactly once on its way
\* to or received by the position task of its symbol; nothing is discarded and
\* nothing is duplicated.
C11_FanOutDeliversExactlyOnce ==
    \A r \in AllReports :
        /\ r.symbol \in DOMAIN pos_q
        /\ Emitted(r) = Count(exec_q, r) + Count(post_q, r) + Count(post_got, r)
        /\ Emitted(r) = Count(exec_q, r) + Count(FanHeld, r) + Count(to_pos_q, r)
                           + Count(pos_q[r.symbol], r) + Count(pos_got, r)
        /\ \A sym \in Symbols : Count(pos_q[sym], r) > 0 => sym = r.symbol

\* the reports of two parents, four children, have all reached both consumers
C11_Witness ==
    /\ Len(gw_out["A"]) + Len(gw_out["C"]) = 8
    /\ Len(post_got) = 8
    /\ Len(pos_got) = 8

\* the elements of q that carry cl_id c
OfClId(q, c) == SelectSeq(q, LAMBDA x : x.cl_id = c)

IsPrefix(a, b) == Len(a) <= Len(b) /\ a = SubSeq(b, 1, Len(a))

\* C12: each gateway has received a prefix of what the router sent to its
\* venue, in the same order, and for every cl_id the reports received by the
\* post-trade logger and by the position task are a prefix of the reports the
\* gateway emitted for that cl_id, in the same order.
C12_OrderPreserved ==
    \A v \in Venues :
        /\ Len(gw_in[v]) <= Len(rt_out[v])
        /\ \A i \in 1..Len(gw_in[v]) : gw_in[v][i] = rt_out[v][i].order
        /\ \A r \in Range(gw_out[v]) :
              /\ IsPrefix(OfClId(post_got, r.cl_id), OfClId(gw_out[v], r.cl_id))
              /\ IsPrefix(OfClId(pos_got, r.cl_id), OfClId(gw_out[v], r.cl_id))

\* a gateway has received two children, and both consumers have the Ack and
\* then the Filled of a child
C12_Witness ==
    \E v \in Venues :
        /\ Len(gw_in[v]) = 2
        /\ \E r \in Range(gw_out[v]) :
              /\ Len(OfClId(post_got, r.cl_id)) = 2
              /\ Len(OfClId(pos_got, r.cl_id)) = 2
              /\ OfClId(post_got, r.cl_id)[1].status = "Ack"
              /\ OfClId(post_got, r.cl_id)[2].status = "Filled"

\* C13: every child of the routed parent has cl_id = parent cl_id + "-" + venue
\* and the parent's symbol, side, px and ts_ns; every report of a simulated
\* gateway has the cl_id and the symbol of the order it answers, which is the
\* order the router sent to that venue.
C13_ChildAndReportTraceParent ==
    /\ \A i \in 1..Len(routed.children) :
          LET ch == routed.children[i]
          IN /\ ch.order.cl_id = routed.parent.cl_id \o <<ch.venue>>
             /\ ch.order.symbol = routed.parent.symbol
             /\ ch.order.side = routed.parent.side
             /\ ch.order.px = routed.parent.px
             /\ ch.order.ts_ns = routed.parent.ts_ns
    /\ \A v \in Venues : \A i \in 1..Len(gw_out[v]) :
          LET sent == rt_out[v][(i + 1) \div 2]
          IN /\ sent.venue = v
             /\ gw_out[v][i].cl_id = sent.order.cl_id
             /\ gw_out[v][i].symbol = sent.order.symbol

\* the second parent has been routed and a gateway has answered both its children
C13_Witness ==
    /\ nord = 2
    /\ Len(routed.children) = 2
    /\ \E v \in Venues : Len(gw_out[v]) = 4

\* ========================================================================
\* Properties of the risk gate: order identity and rejections (SpecRisk)
\* ========================================================================
\* C14: any two orders emitted by the risk gate (here: two orders waiting on
\* the order queue) have different cl_id.
C14_ClIdsPairwiseDistinct ==
    \A i, j \in 1..Len(ord_q) : i # j => ord_q[i].cl_id # ord_q[j].cl_id

RejectionKinds == {"Notional", "PriceBand", "Throttle"}

\* C16: when the risk gate has rejected a signal, a Rejected exec report is on
\* its way to, or has been received by, the downstream consumers.
C16_RiskRejectionSurfaced ==
    risk_res \in RejectionKinds => \E r \in AllReports : r.status = "Rejected"

\* ========================================================================
\* Properties of the exchange gateway's order loop (SpecBinance)
\* ========================================================================
\* what the order loop must have emitted for the orders from the i-th on: an
\* Ack per order, followed, once its REST response is known, by one Rejected if
\* the response is an HTTP error or a status outside 200..299, by nothing otherwise
RECURSIVE AckThenRejectIfFailed(_)
AckThenRejectIfFailed(i) ==
    IF i > Len(bn_in) THEN <<>>
    ELSE LET o == bn_in[i]
             failed == i <= Len(bn_rsp)
                         /\ (bn_rsp[i].kind = "err" \/ bn_rsp[i].code \notin 200..299)
             reason == IF bn_rsp[i].kind = "err" THEN bn_rsp[i].text
                       ELSE IF bn_rsp[i].body.ok THEN bn_rsp[i].body.val ELSE ""
         IN <<[cl_id |-> o.cl_id, symbol |-> o.symbol, status |-> "Ack",
               filled_qty |-> 0, avg_px |-> 0]>>
            \o (IF failed
                THEN <<[cl_id |-> o.cl_id, symbol |-> o.symbol, status |-> "Rejected",
                        reason |-> reason, filled_qty |-> 0, avg_px |-> 0]>>
                ELSE <<>>)
            \o AckThenRejectIfFailed(i + 1)

\* C15: for every order received by the exchange gateway the order loop emits
\* a local Ack first; after a failed submission (HTTP error, or a status outside
\* 2xx) exactly one Rejected for that cl_id follows, its reason the response body
\* (empty if the body cannot be read) or the error text; after a successful
\* submission the loop emits nothing more for that order.
C15_AckThenRejectedOnlyOnFailure == bn_out = AckThenRejectIfFailed(1)

\* one order was answered 400 and rejected with the body, another was accepted
C15_Witness ==
    /\ Len(bn_in) = 2
    /\ Len(bn_rsp) = 2
    /\ bn_rsp[1].kind = "rsp" /\ bn_rsp[1].code = 400
    /\ bn_rsp[2].kind = "rsp" /\ bn_rsp[2].code = 200
    /\ Len(bn_out) = 3
    /\ bn_out[2].status = "Rejected" /\ bn_out[2].reason = "{code:-2010}"
    /\ bn_pc = "recv"

\* ========================================================================
\* Properties of tasks whose channels close (SpecLife)
\* ========================================================================
\* C17: a task whose input channel is closed and drained terminates: the risk
\* task, with the signal queue closed and empty, has returned or returns with
\* its next step, and the strategy worker, once recv on the closed and drained
\* MD bus has returned Err(Closed), has returned.
C17_ClosedInputEndsTask ==
    /\ (sig_closed /\ sig_q = <<>> /\ ~sig_gone)
          => ("risk" \in task_done \/ ENABLED RiskExit)
    /\ strat_spin => "strategy" \in task_done

\* C18: a task whose send has returned an error (the receiver of its output
\* channel is dropped) takes no further input: neither the risk task another
\* signal nor the strategy worker another tick.
C18_SendErrorEndsTask ==
    /\ risk_after = 0
    /\ strat_after = 0

\* ========================================================================
\* Properties of the MD bus subscribers (SpecMd)
\* ========================================================================
\* the ticks subscriber sub has received are ticks of the bus, in producer order
MdGotInOrder(sub) ==
    /\ \A i \in 1..Len(md_got[sub]) : md_got[sub][i] = md_log[md_got[sub][i].ts_ns]
    /\ \A i, j \in 1..Len(md_got[sub]) : i < j => md_got[sub][i].ts_ns < md_got[sub][j].ts_ns

\* C20: a subscriber told that it lagged goes on to the next available tick:
\* what it has received is a subsequence of the published ticks in producer
\* order, and a position task that has nothing else to handle (no exec report
\* queued) is waiting on the bus, where the oldest retained tick is ready.
C20_LaggedSubscriberTakesNextTick ==
    /\ \A sub \in Subs : MdGotInOrder(sub)
    /\ \A sym \in Symbols :
          (pos_alive /\ since_lag["position"] = 0 /\ pos_q[sym] = <<>>) => ~pos_md_off

\* ========================================================================
\* Properties of the strategy workers (SpecStrat)
\* ========================================================================
\* the mid of a tick as the strategies take it
MidOf(t) == (t.best_bid + t.best_ask) \div 2

RECURSIVE SumMids(_, _, _)
\* sum of the mids of ticks[a..b]
SumMids(ticks, a, b) == IF a > b THEN 0 ELSE MidOf(ticks[a]) + SumMids(ticks, a + 1, b)

\* the signal the mean-reversion rule asks for at the i-th tick received
MrExpected(i) ==
    IF i < 64 THEN <<>>
    ELSE LET t == fed[i]
             fair == SumMids(fed, i - 63, i) \div 64
         IN IF t.best_ask < fair - 3
            THEN <<[ts_ns |-> t.ts_ns, symbol |-> t.symbol, side |-> "Buy",
                    px |-> t.best_ask, qty |-> 10]>>
            ELSE IF t.best_bid > fair + 3
            THEN <<[ts_ns |-> t.ts_ns, symbol |-> t.symbol, side |-> "Sell",
                    px |-> t.best_bid, qty |-> 10]>>
            ELSE <<>>

RECURSIVE MrExpectedUpTo(_)
MrExpectedUpTo(n) == IF n = 0 THEN <<>> ELSE MrExpectedUpTo(n - 1) \o MrExpected(n)

\* 64 ticks of mid 10000 followed by one tick quoted 9989 / 9990
MrScenario ==
    /\ mode = "mean_reversion"
    /\ Len(fed) = 65
    /\ \A i \in 1..64 : MidOf(fed[i]) = 10000
    /\ fed[65].best_ask = 9990
    /\ fed[65].best_bid = 9989

MaDiff(ticks, n) == (SumMids(ticks, n - 15, n) \div 16) - (SumMids(ticks, n - 63, n) \div 64)

\* the tick the MA-crossover worker is taking qualifies: both averages are
\* populated and |diff| >= min_edge
MacQualifies == Len(fed') >= 64 /\ Abs(MaDiff(fed', Len(fed'))) >= 2

\* C22: the MA-crossover worker emits a signal only on a tick where a sign is
\* latched (prev_sign # 0), the sign of SMA_fast - SMA_slow differs from it,
\* |diff| >= min_edge and since_last >= cooldown; with no sign latched, a
\* qualifying tick latches the sign and emits nothing.
C22_SignalOnlyOnLatchedCross ==
    [][(mode = "ma_crossover" /\ fed' # fed) =>
         /\ sig_log' # sig_log =>
               /\ mac.prev_diff_sign # 0
               /\ mac'.prev_diff_sign # mac.prev_diff_sign
               /\ MacQualifies
               /\ mac.since_last + 1 >= 16
         /\ (mac.prev_diff_sign = 0 /\ MacQualifies) =>
               /\ sig_log' = sig_log
               /\ mac'.prev_diff_sign # 0]_vars

\* 64 ticks of mid 10000 followed by 16 ticks of mid 10200
MacScenario ==
    /\ mode = "ma_crossover"
    /\ Len(fed) = 80
    /\ \A i \in 1..64 : MidOf(fed[i]) = 10000
    /\ \A i \in 65..80 : MidOf(fed[i]) = 10200

C24_BidNotAboveAsk ==
    \A i \in 1..Len(md_log) : md_log[i].best_bid <= md_log[i].best_ask

\* ========================================================================
\* Properties of the gateways' Ack reports (SpecBinance)
\* ========================================================================
\* C25: every ExecReport with status Ack, from the simulated gateway, the
\* exchange gateway's order loop or the user-data stream (unknown exchange
\* statuses included), has filled_qty = 0 and avg_px = 0.
C25_AckCarriesNoFill ==
    \A r \in Range(bn_out) \cup Range(ws_out) \cup UNION {Range(gw_out[v]) : v \in Venues} :
        r.status = "Ack" => (r.filled_qty = 0 /\ r.avg_px = 0)

\* ========================================================================
\* Further properties of the positions task (SpecPos)
\* ========================================================================
\* C26: a fill in the direction of a non-flat venue position, long or short,
\* makes avg_cost_px = (avg_cost_px * |prev_qty| + avg_px * |signed_qty|)
\* / (|prev_qty| + |signed_qty|) in integer arithmetic and qty = prev_qty +
\* signed_qty. Stated for a venue opened by a fill of q1 at p1 and increased
\* by a fill of q2 at p2 on the same side.
C26_SameDirectionAverages ==
    \A v \in Venues : \A s \in Sides : \A q1, q2 \in FillQty : \A p1, p2 \in FillPx :
        TwoFills(v, s, q1, p1, s, q2, p2)
            => /\ pos.by_venue[v].qty = sign(s) * (q1 + q2)
               /\ pos.by_venue[v].avg_cost_px = (p1 * q1 + p2 * q2) \div (q1 + q2)

\* the venue a report is to be booked under: the piece after the last '-' of
\* its cl_id, "?" when the cl_id holds no '-'
BookVenue(er) == IF Len(er.cl_id) > 1 THEN er.cl_id[Len(er.cl_id)] ELSE "?"

\* C29: the position task books an exec report under the venue named by the
\* trailing "-<venue>" suffix of its cl_id, and under venue "?" when the cl_id
\* holds no '-': the entry of that venue exists afterwards and no other entry
\* is created or changed.
C29_BookedUnderSuffixVenue ==
    [][(nfill' # nfill /\ pos_alive') =>
         LET ev == BookVenue(pos_got'[Len(pos_got')])
         IN /\ ev \in DOMAIN pos'.by_venue
            /\ \A v \in DOMAIN pos'.by_venue \ {ev} :
                  v \in DOMAIN pos.by_venue /\ pos'.by_venue[v] = pos.by_venue[v]]_vars

\* the reports of seq whose symbol has a position task
Configured(seq) == SelectSeq(seq, LAMBDA er : er.symbol \in Symbols)

\* the position state after the reports of seq, booked one after the other
RECURSIVE Booked(_)
Booked(seq) ==
    IF seq = <<>> THEN ZeroState(Venues)
    ELSE LET st == Booked(SubSeq(seq, 1, Len(seq) - 1))
             er == seq[Len(seq)]
         IN on_fill(st, er, InferSide(st.last_mid, er))

\* the reports sent to the central queue are, in order, those logged by
\* post-trade and those still on the way to it
PostPathComplete == post_got \o post_q \o exec_q = ws_out

\* the reports of configured symbols are, in order, those the position task has
\* taken and those still on the way to it
PosPathComplete ==
    pos_got \o pos_q["BTCUSDT"] \o Configured(to_pos_q)
        \o (IF fan_pc = "pos" THEN Configured(<<fan_cur>>) ELSE <<>>)
        \o Configured(exec_q)
      = Configured(ws_out)

\* C30: an exec report whose symbol has no position task is dropped by the
\* dispatcher without crashing or blocking it: the reports of configured
\* symbols, later ones included, all reach the position task in order, the
\* post-trade logger receives every report, the unknown-symbol one included,
\* and the position state is the one given by the configured-symbol reports alone.
C30_UnknownSymbolDropped ==
    /\ [](PostPathComplete /\ PosPathComplete /\ pos_alive /\ pos = Booked(pos_got))
    /\ <>[](post_got = ws_out /\ pos_got = Configured(ws_out))

\* an unknown-symbol report was followed by a report of a configured symbol;
\* post-trade has logged both and the position task has booked the later one
C30_Witness ==
    /\ Len(ws_out) = MaxStreamReports
    /\ ws_out[1].symbol = "ETHUSDT"
    /\ ws_out[2].symbol = "BTCUSDT" /\ ws_out[2].status = "Filled" /\ ws_out[2].filled_qty = 4
    /\ post_got = ws_out
    /\ pos_got = <<ws_out[2]>>
    /\ pos.total_qty = 4

\* C31: the fill handler of the position task never faults: the divisor of the
\* average-cost computation is never zero, so the task is never unwound by an
\* arithmetic error, whatever the venue position and the report.
C31_FillHandlerNeverFaults ==
    /\ pos_alive
    /\ \A er \in ExecReportSet : \A side \in Sides :
          ~OnFillPanics(OrInsert(pos.by_venue, VenueOf(er.cl_id), ZeroPos)[VenueOf(er.cl_id)], er, side)

\* C33: every child sent for a parent has quantity >= 1 and the quantities of
\* the children sent for it never add up to more than the parent's quantity.
C33_NeverOverRoutes ==
    routed.top # <<>> =>
        /\ \A i \in 1..Len(routed.children) : routed.children[i].order.qty >= 1
        /\ SumChildQty(routed.children) <= routed.parent.qty

\* C34: the fill handler runs for every report, and a report with filled_qty = 0
\* leaves qty, avg_cost_px and realized_pnl of every venue and the symbol's
\* total_qty and realized_pnl unchanged, whatever the position and the side.
C34_NothingFilledChangesNothing ==
    [][(nfill' # nfill /\ pos_alive' /\ pos_got'[Len(pos_got')].filled_qty = 0) =>
         /\ \A v \in DOMAIN pos'.by_venue :
               pos'.by_venue[v] = OrInsert(pos.by_venue, v, ZeroPos)[v]
         /\ pos'.total_qty = pos.total_qty
         /\ pos'.realized_pnl = pos.realized_pnl]_vars

\* C35: every snapshot the position task publishes is internally consistent:
\* its unrealized_pnl is the sum, over the venues of that snapshot with qty # 0
\* and avg_cost_px # 0, of (last_mid - avg_cost_px) * qty.
C35_SnapshotConsistent ==
    snap.unrealized_pnl = mark_to_market(snap, snap.last_mid).unrealized_pnl

\* C36: the position change caused by a fill has the direction of the order
\* filled: once the Filled report of a child of quantity q is booked, the
\* position at its venue is -q for a Sell child and +q for a Buy child,
\* whatever ticks the position task marked before the fill.
C36_FillHasOrderDirection ==
    \A v \in Venues :
        \A i \in 1..Len(fills[v]) :
            fills[v][i].status = "Filled" =>
                \E j \in 1..Len(gw_in[v]) :
                    /\ gw_in[v][j].cl_id = fills[v][i].cl_id
                    /\ fills[v][i].side = gw_in[v][j].side
                    /\ pos.by_venue[v].qty = sign(gw_in[v][j].side) * gw_in[v][j].qty

\* C37: the state of the position task of BTCUSDT and the snapshot it published
\* are changed only by ticks of BTCUSDT: when the task takes a tick of another
\* symbol from the shared bus, both stay as they are.
C37_OtherSymbolTicksIgnored ==
    [][(md_next'["position"] # md_next["position"]
          /\ md_next["position"] <= Len(md_log)
          /\ md_log[md_next["position"]].symbol # "BTCUSDT")
         => (pos' = pos /\ snap' = snap)]_vars

\* the ticks of seq that are of symbol sym, and the signals of seq for sym
TicksOf(seq, sym) == SelectSeq(seq, LAMBDA md : md.symbol = sym)

\* the signals a fresh mean-reversion worker sends for the ticks of seq
RECURSIVE WorkerSignals(_, _)
WorkerSignals(st, seq) ==
    IF seq = <<>> THEN <<>>
    ELSE OnTickSignal(st, Head(seq)) \o WorkerSignals(OnTickState(st, Head(seq)), Tail(seq))

\* C38: the signals a strategy worker sends for a symbol depend only on the
\* ticks of that symbol: they are the signals the worker would send if the
\* ticks of the other symbols were not on the bus.
C38_SignalsDependOnOwnSymbol ==
    \A sym \in BusSymbols :
        TicksOf(sig_q, sym)
          = WorkerSignals(StratNew(StratW, StratEdge), TicksOf(md_got["strategy"], sym))

\* C39: the signals of one MA-crossover worker strictly alternate in side and
\* any two consecutive signals are at least cooldown (16) ticks apart.
C39_SignalsAlternateAfterCooldown ==
    mode = "ma_crossover" =>
        \A i \in 1..(Len(sig_log) - 1) :
            /\ sig_log[i + 1].side # sig_log[i].side
            /\ sig_log[i + 1].ts_ns - sig_log[i].ts_ns >= MacCooldown

\* a Buy was followed by a Sell exactly 16 ticks later: the averages had
\* crossed back earlier, while the cooldown was running
C39_Witness ==
    /\ mode = "ma_crossover"
    /\ Len(sig_log) = 2
    /\ sig_log[1].side = "Buy"
    /\ sig_log[2].side = "Sell"
    /\ sig_log[2].ts_ns - sig_log[1].ts_ns = MacCooldown
    /\ Len(fed) >= 73
    /\ MaDiff(fed, 73) <= -2

\* the tick the volatility-breakout worker is taking comes after at least 100
\* ticks, with the cooldown elapsed
VbArmed ==
    /\ mode = "vol_breakout"
    /\ fed' # fed
    /\ Len(fed) >= VbWindow
    /\ vb.since_last + 1 >= VbCooldown

\* the mids in the window before the tick being taken
VbEarlierMids == {MidOf(fed[i]) : i \in (Len(fed) - VbWindow + 2)..Len(fed)}

\* C40: the volatility-breakout worker (100, 5, 20) signals breakouts: after at
\* least 100 ticks, with the cooldown elapsed, a tick whose mid is more than
\* edge above every earlier mid in the window yields a Buy at best_ask, and
\* one whose mid is more than edge below every earlier mid yields a Sell at
\* best_bid.
C40_BreakoutsAreSignalled ==
    [][VbArmed =>
         LET md == fed'[Len(fed')]
         IN /\ (\A x \in VbEarlierMids : MidOf(md) > x + VbEdge)
                  => sig_log' = Append(sig_log, TickSignal(md, "Buy", md.best_ask))
            /\ (\A x \in VbEarlierMids : MidOf(md) < x - VbEdge)
                  => sig_log' = Append(sig_log, TickSignal(md, "Sell", md.best_bid))]_vars

\* a Filled report of child c is in seq
FilledIn(seq, c) ==
    \E i \in 1..Len(seq) : seq[i].cl_id = c.order.cl_id /\ seq[i].status = "Filled"

\* every order the risk gate emitted has been routed and every child the router
\* emitted has its Filled report with post-trade and with the position task
AllChildrenFilled ==
    /\ ord_q = <<>>
    /\ \A v \in Venues : \A i \in 1..Len(rt_out[v]) :
          FilledIn(post_got, rt_out[v][i]) /\ FilledIn(pos_got, rt_out[v][i])

\* C32: in mock venue mode, with every task scheduled fairly and as long as
\* every task keeps running (the position task has not unwound), the pipeline
\* does not get stuck: every order the risk gate emits is routed and every child
\* the router emits eventually has a Filled report received by the post-trade
\* logger and by the position task; full queues only delay this.
C32_EveryChildEventuallyFilled == <>(~pos_alive) \/ <>[]AllChildrenFilled

\* an order was split over two venues and both fills have reached post-trade
\* and the position task
C32_Witness ==
    /\ nord = MaxTradeOrders
    /\ AllChildrenFilled
    /\ Len(rt_out["A"]) = 1 /\ Len(rt_out["C"]) = 1
    /\ Len(post_got) = 4 /\ Len(pos_got) = 4
    /\ pos.total_qty = 10
====
